---- MODULE Spec2Model ----
(***************************************************************************)
(* Seed pipeline of E-ComerceRiwi: runSeeders (seeders/index.ts), the      *)
(* per-entity seeders it awaits, and the storage layer they insert into.   *)
(***************************************************************************)
EXTENDS Integers, Sequences, FiniteSets, TLC

\* ------------------------------------------------------------------ bounds
\* data rows of a source file
MaxRecs == 2
\* calls of runSeeders in one behaviour
MaxRuns == 3
\* order ids that order-details.csv may refer to
MaxOrderId == 2
\* data rows of roles.csv
MaxRoleRows == 3

VARIABLES
  pc,            \* position of runSeeders: idle, sync, syncRejected, seeding, done, failed, crashed
  cur,           \* index in SeederOrder of the seeder being awaited (0: none yet)
  sst,           \* state of that seeder: none, call, reading, inserting (in its loop),
                 \* awaiting (an insert is in flight), resolved, rejected
  serr,          \* the error a rejected promise (seeder or schema reset) carries
  buf,           \* the records (or order groups) the seeder collected from its source
  nxt,           \* index in buf of the next record to insert
  db,            \* the tables: entity -> sequence of rows
  started,       \* seeders called in this run, in order
  completed,     \* seeders whose promise resolved in this run, in order
  result,        \* runSeeders' promise: pending, resolved or rejected with an error
  syncCount,     \* calls of sequelize.sync in this run
  synced,        \* the schema reset of this run has completed
  issued,        \* insert calls issued in this run
  settled,       \* insert calls of this run whose promise has settled
  successLogged, \* "Seeders completed successfully" was printed in this run
  run,           \* number of runSeeders calls so far
  doneCounts,    \* row counts per table at the end of each successful run
  exitCode,      \* exit code of the process that runs the seed entry point (-1: running)
  nrecs,         \* source files: entity -> number of data rows
  details,       \* order-details.csv: the data rows
  seeder,        \* a seeder run on its own: which one
  input,         \* the content of its source file
  ph,            \* its position: start, inserting, resolved, rejected
  recs,          \* the records its parse and transform produced
  pos,           \* index in recs of the next record to insert
  handed,        \* the records handed to the insert call so far
  stored,        \* the rows of its table
  thrown,        \* the error it rejected with
  op,            \* a DAO function or request handler called on its own: the last call
  ret            \* what that call returned (a handler: the response it sent)

vars == <<pc, cur, sst, serr, buf, nxt, db, started, completed, result,
          syncCount, synced, issued, settled, successLogged, run, doneCounts, exitCode,
          nrecs, details, seeder, input, ph, recs, pos, handed, stored, thrown,
          op, ret>>

\* The state of runSeeders and of the storage it fills.
RunnerVars == <<pc, cur, sst, serr, buf, nxt, db, started, completed, result,
                syncCount, synced, issued, settled, successLogged, run, doneCounts,
                exitCode, nrecs, details, op, ret>>

\* The state of a seeder run on its own.
SeederVars == <<seeder, input, ph, recs, pos, handed, stored, thrown>>

\* ------------------------------------------------------- the entity registry
\* A mis-ordered sequence: users is awaited before accesses.
SeederOrderUsersFirst ==
  << "roles", "genders", "categories", "paymentMethods", "banks", "orderStatus",
     "countries", "departments", "cities", "users", "accesses", "products",
     "orders", "addresses", "orderDetails" >>

\* A sequence that seeds the addresses before the orders.
SeederOrderAddressesFirst ==
  << "roles", "genders", "categories", "paymentMethods", "banks", "orderStatus",
     "countries", "departments", "cities", "accesses", "users", "products",
     "addresses", "orders", "orderDetails" >>

\* The await sequence of runSeeders.
SeederOrder ==
  << "roles", "genders", "categories", "paymentMethods", "banks", "orderStatus",
     "countries", "departments", "cities", "accesses", "users", "products",
     "orders", "addresses", "orderDetails" >>

NumSeeders == Len(SeederOrder)

Entities == { SeederOrder[i] : i \in 1..NumSeeders }

\* Seeders of the shape createReadStream(...).pipe(csv()).on('data').on('end').on('error').
StreamSeeders ==
  { "roles", "genders", "categories", "paymentMethods", "banks", "orderStatus",
    "countries", "departments", "cities", "accesses", "users", "products" }

\* Seeders that read their file with readFileSync inside try/catch.
ReadFileSeeders == { "addresses", "orderDetails" }

FileEntities == StreamSeeders \cup ReadFileSeeders

\* <<child, parent>>: the child's table holds a foreign key to the parent's table.
ForeignKeys ==
  { <<"accesses", "roles">>,
    <<"users", "accesses">>, <<"users", "genders">>,
    <<"addresses", "users">>, <<"addresses", "cities">>,
    <<"addresses", "departments">>, <<"addresses", "countries">>,
    <<"products", "categories">>,
    <<"orders", "accesses">>, <<"orders", "banks">>, <<"orders", "orderStatus">>,
    <<"orderDetails", "orders">>, <<"orderDetails", "products">> }

PosOf(e) == CHOOSE i \in 1..NumSeeders : SeederOrder[i] = e

CurEntity == SeederOrder[cur]

\* ------------------------------------------------------------------ errors
NoErr == [kind |-> "none", ent |-> "none", at |-> 0]

Err(k, e, i) == [kind |-> k, ent |-> e, at |-> i]

Pending == [state |-> "pending", err |-> NoErr]

Resolved == [state |-> "resolved", err |-> NoErr]

Rejected(e) == [state |-> "rejected", err |-> e]

\* ------------------------------------------------------------- the storage
EmptyDb == [e \in Entities |-> << >>]

\* One row left in every table by whatever ran before.
StaleDb == [e \in Entities |-> << [id |-> 1, rec |-> 0] >>]

Ids(table) == { table[i].id : i \in 1..Len(table) }

Counts(d) == [e \in Entities |-> Len(d[e])]

\* A reset that misses one table: the rows of roles survive it.
SyncKeepsRoles(d) == [EmptyDb EXCEPT !["roles"] = d["roles"]]

\* sequelize.sync({ force: true }): every table dropped and created again.
SyncForceDb(d) == EmptyDb

\* ------------------------------------------------------------ seeder data
\* The one order seedOrders creates.
SeedOrdersData ==
  << [customer_id |-> 2, bank_id |-> 1, order_status_id |-> 1,
      total |-> 365000, is_active |-> TRUE] >>

\* A parsed data row of order-details.csv for order o.
DetailRow(o) ==
  [order_id |-> o, product_id |-> 1, amount |-> 2, subtotal |-> 200, is_active |-> TRUE]

DetailFiles ==
  UNION { [1..n -> { DetailRow(o) : o \in 1..MaxOrderId }] : n \in 0..MaxRecs }

\* Data rows an entity's source holds.
FullCount(e) == IF e = "orders" THEN Len(SeedOrdersData) ELSE nrecs[e]

\* The records a stream seeder has pushed when 'end' fires: one per data row.
FileRecords(e) == [i \in 1..nrecs[e] |-> [rec |-> i]]

\* Keys of the orderGroups object in the order Object.entries yields them:
\* integer-like keys ascending.
RECURSIVE AscendingKeys(_)
AscendingKeys(S) ==
  IF S = {} THEN << >>
  ELSE LET m == CHOOSE x \in S : \A y \in S : x <= y
       IN  << m >> \o AscendingKeys(S \ {m})

\* The products pushed under key k by the reduce of seedOrderDetails, in row order.
RECURSIVE GroupProducts(_, _)
GroupProducts(rows, k) ==
  IF rows = << >> THEN << >>
  ELSE LET d == Head(rows)
           rest == GroupProducts(Tail(rows), k)
       IN  IF d.order_id = k
           THEN << [price |-> d.subtotal \div d.amount, quantity |-> d.amount] >> \o rest
           ELSE rest

\* orderGroups of seedOrderDetails as the sequence its for..of loop walks.
OrderGroups(rows) ==
  LET keys == AscendingKeys({ rows[i].order_id : i \in 1..Len(rows) })
  IN  [g \in 1..Len(keys) |-> [orderId |-> keys[g], products |-> GroupProducts(rows, keys[g])]]

\* orderItemsToCreate of createShoppingCart.
CartItems(orderId, products) ==
  [i \in 1..Len(products) |->
     [order_id |-> orderId, price |-> products[i].price, quantity |-> products[i].quantity,
      subtotal |-> products[i].price * products[i].quantity, is_active |-> TRUE]]

\* Rows get serial ids in insertion order.
RECURSIVE WithIds(_, _)
WithIds(rows, first) ==
  IF rows = << >> THEN << >>
  ELSE << [f \in (DOMAIN Head(rows)) \cup {"id"} |->
             IF f = "id" THEN first ELSE Head(rows)[f]] >> \o WithIds(Tail(rows), first + 1)

\* An insert that replaces what the table holds.
ReplaceRows(table, rows) == WithIds(rows, 1)

\* Model.create / Model.bulkCreate: the new rows are added after the old ones.
BulkCreate(table, rows) == table \o WithIds(rows, Len(table) + 1)

\* A storage layer that does not enforce the order_items -> orders foreign key.
OrderItemFkUnchecked(orderId, d) == TRUE

\* order_items.order_id must be the id of a row of orders.
OrderItemFkOk(orderId, d) == orderId \in Ids(d["orders"])

\* orders.customer_id, bank_id and order_status_id must be ids of rows of their tables.
OrderFkOk(o, d) ==
  /\ o.customer_id \in Ids(d["accesses"])
  /\ o.bank_id \in Ids(d["banks"])
  /\ o.order_status_id \in Ids(d["orderStatus"])

\* ------------------------------------------------------------ runSeeders
\* No seeder is run on its own.
SeederIdle ==
  /\ seeder = "none" /\ input = << >> /\ ph = "none" /\ recs = << >> /\ pos = 1
  /\ handed = << >> /\ stored = << >> /\ thrown = NoErr

\* No DAO function or request handler has been called on its own.
NoCall == op = [name |-> "none", arg |-> << >>, again |-> FALSE] /\ ret = [t |-> "none"]

Init ==
  /\ pc = "idle" /\ cur = 0 /\ sst = "none" /\ serr = NoErr
  /\ buf = << >> /\ nxt = 1
  /\ db \in {EmptyDb, StaleDb}
  /\ started = << >> /\ completed = << >> /\ result = Pending
  /\ syncCount = 0 /\ synced = FALSE /\ issued = 0 /\ settled = 0 /\ successLogged = FALSE
  /\ run = 0 /\ doneCounts = << >> /\ exitCode = -1
  /\ details \in DetailFiles
  /\ \E d \in FileEntities \ {"orderDetails"}, n \in 0..MaxRecs :
       nrecs = [e \in FileEntities |->
                  IF e = "orderDetails" THEN Len(details)
                  ELSE IF e = d THEN n ELSE MaxRecs]
  /\ SeederIdle /\ NoCall

\* What runSeeders does not change: the source files, the process's exit code
\* and the record of calls made on their own.
Files == <<nrecs, details, exitCode, op, ret>>

\* runSeeders is called: a fresh promise, nothing awaited yet.
CallRunSeeders ==
  /\ pc \in {"idle", "done", "failed", "crashed"}
  /\ run < MaxRuns
  /\ pc' = "sync" /\ run' = run + 1
  /\ cur' = 0 /\ sst' = "none" /\ serr' = NoErr /\ buf' = << >> /\ nxt' = 1
  /\ started' = << >> /\ completed' = << >> /\ result' = Pending
  /\ syncCount' = 0 /\ synced' = FALSE /\ issued' = 0 /\ settled' = 0
  /\ successLogged' = FALSE
  /\ UNCHANGED <<db, doneCounts, Files, SeederVars>>

\* A runner that goes on to the seeders whatever the reset did.
PcAfterSyncIgnoringFailure(ok) == "seeding"

\* await sequelize.sync(...): the seeders follow only when it resolved.
PcAfterSync(ok) == IF ok THEN "seeding" ELSE "syncRejected"

\* await sequelize.sync({ force: true })
SyncForce ==
  /\ pc = "sync"
  /\ syncCount' = syncCount + 1
  /\ \E ok \in BOOLEAN :
       /\ synced' = ok
       /\ pc' = PcAfterSync(ok)
       /\ IF ok THEN db' = SyncForceDb(db) /\ serr' = serr
                ELSE db' \in {db, EmptyDb} /\ serr' = Err("SyncError", "none", 0)
  /\ cur' = IF pc' = "seeding" THEN 1 ELSE 0
  /\ sst' = IF pc' = "seeding" THEN "call" ELSE "none"
  /\ UNCHANGED <<buf, nxt, started, completed, result, issued, settled, successLogged,
                 run, doneCounts, Files, SeederVars>>

\* A stream seeder is called: the read stream is opened, the handlers registered.
CallStreamSeeder ==
  /\ pc = "seeding" /\ sst = "call" /\ CurEntity \in StreamSeeders
  /\ started' = Append(started, CurEntity)
  /\ sst' = "reading" /\ buf' = << >> /\ nxt' = 1
  /\ UNCHANGED <<pc, cur, serr, db, completed, result, syncCount, synced, issued, settled,
                 successLogged, run, doneCounts, Files, SeederVars>>

\* A 'data' handler that inserts the row as soon as it arrives.
OnDataInserting(state, e, row) ==
  [buf |-> Append(state.buf, row),
   db |-> [state.db EXCEPT ![e] = Append(@, [id |-> Len(@) + 1, rec |-> row.rec])]]

\* .on("data", (row) => roles.push({...})): the row joins the array; no table
\* is touched.
OnData(state, e, row) == [buf |-> Append(state.buf, row), db |-> state.db]

\* A 'data' event: the parser hands over the next row of the file.
StreamData ==
  /\ pc = "seeding" /\ sst = "reading"
  /\ Len(buf) < nrecs[CurEntity]
  /\ LET after == OnData([buf |-> buf, db |-> db], CurEntity,
                         FileRecords(CurEntity)[Len(buf) + 1])
     IN  buf' = after.buf /\ db' = after.db
  /\ UNCHANGED <<pc, cur, sst, serr, nxt, started, completed, result, syncCount, synced,
                 issued, settled, successLogged, run, doneCounts, Files, SeederVars>>

\* The stream ends ('end', after the last row), the parser emits 'error'
\* (reject), or the read stream itself emits 'error' (the file is missing, or
\* a read fails further on), which has no listener: the exception is uncaught.
StreamOutcome ==
  /\ pc = "seeding" /\ sst = "reading"
  /\ \/ /\ Len(buf) = nrecs[CurEntity]
        /\ buf' = FileRecords(CurEntity) /\ sst' = "inserting"
        /\ UNCHANGED <<pc, serr>>
     \/ /\ sst' = "rejected" /\ serr' = Err("ParseError", CurEntity, Len(buf))
        /\ UNCHANGED <<pc, buf>>
     \/ /\ pc' = "crashed"
        /\ serr' = Err(IF buf = << >> THEN "ENOENT" ELSE "EIO", CurEntity, Len(buf))
        /\ UNCHANGED <<sst, buf>>
  /\ UNCHANGED <<cur, nxt, db, started, completed, result, syncCount, synced, issued, settled,
                 successLogged, run, doneCounts, Files, SeederVars>>

\* seedOrders is called: its orders are literals of the code.
CallSeedOrders ==
  /\ pc = "seeding" /\ sst = "call" /\ CurEntity = "orders"
  /\ started' = Append(started, CurEntity)
  /\ sst' = "inserting" /\ buf' = SeedOrdersData /\ nxt' = 1
  /\ UNCHANGED <<pc, cur, serr, db, completed, result, syncCount, synced, issued, settled,
                 successLogged, run, doneCounts, Files, SeederVars>>

\* seedAddresses / seedOrderDetails are called: readFileSync and the parse run
\* synchronously inside try; a missing file throws, is caught and thrown again.
CallReadFileSeeder ==
  /\ pc = "seeding" /\ sst = "call" /\ CurEntity \in ReadFileSeeders
  /\ started' = Append(started, CurEntity)
  /\ nxt' = 1
  /\ \/ /\ sst' = "inserting"
        /\ buf' = IF CurEntity = "orderDetails" THEN OrderGroups(details)
                  ELSE FileRecords(CurEntity)
        /\ serr' = serr
     \/ /\ sst' = "rejected" /\ buf' = << >>
        /\ serr' = Err("ENOENT", CurEntity, 0)
  /\ UNCHANGED <<pc, cur, db, completed, result, syncCount, synced, issued, settled,
                 successLogged, run, doneCounts, Files, SeederVars>>

\* A seeder that deletes what it inserted before it rejects.
RollbackEntity(d, e) == [d EXCEPT ![e] = << >>]

\* catch (error) { reject(error) } / { throw error }: the rows the seeder inserted
\* before the failing insert stay.
DbAfterFailedInsert(d, e) == d

\* A loop that calls the next insert while the previous one is still in flight.
LoopIssuesWithoutAwait(state) == state \in {"inserting", "awaiting"}

\* for (const x of xs) { await dao.createX(x) }: the loop body runs again only
\* after the awaited insert has settled.
LoopMayIssue(state) == state = "inserting"

\* The loop calls the insert of its next record (or order group) and awaits it.
IssueInsert ==
  /\ pc = "seeding" /\ LoopMayIssue(sst)
  /\ nxt <= Len(buf)
  /\ issued' = issued + 1
  /\ sst' = "awaiting"
  /\ UNCHANGED <<pc, cur, serr, buf, nxt, db, started, completed, result, syncCount, synced,
                 settled, successLogged, run, doneCounts, Files, SeederVars>>

\* A loop that catches the error of a record and goes on with the next one.
SkipFailedRecord(i) == [sst |-> "inserting", nxt |-> i + 1]

\* The rejected await throws inside try: the loop is left at record i, and the
\* catch rejects the seeder's promise.
AfterFailedInsert(i) == [sst |-> "rejected", nxt |-> i]

\* The awaited dao.createX(record) of a per-record loop settles.
InsertRecord ==
  /\ pc = "seeding" /\ sst = "awaiting" /\ CurEntity # "orderDetails"
  /\ settled' = settled + 1
  /\ \/ /\ CurEntity = "orders" => OrderFkOk(buf[nxt], db)
        /\ db' = [db EXCEPT ![CurEntity] = BulkCreate(@, << buf[nxt] >>)]
        /\ nxt' = nxt + 1 /\ sst' = "inserting"
        /\ UNCHANGED serr
     \/ /\ CurEntity = "orders" /\ ~OrderFkOk(buf[nxt], db)
        /\ sst' = AfterFailedInsert(nxt).sst /\ serr' = Err("ForeignKey", CurEntity, nxt)
        /\ db' = DbAfterFailedInsert(db, CurEntity)
        /\ nxt' = AfterFailedInsert(nxt).nxt
     \/ /\ CurEntity # "orders"
        /\ sst' = AfterFailedInsert(nxt).sst /\ serr' = Err("InsertError", CurEntity, nxt)
        /\ db' = DbAfterFailedInsert(db, CurEntity)
        /\ nxt' = AfterFailedInsert(nxt).nxt
  /\ UNCHANGED <<pc, cur, buf, started, completed, result, syncCount, synced, issued,
                 successLogged, run, doneCounts, Files, SeederVars>>

\* The awaited createShoppingCart(orderId, products) of seedOrderDetails settles:
\* a single bulkCreate of the group's items.
CreateShoppingCart ==
  /\ pc = "seeding" /\ sst = "awaiting" /\ CurEntity = "orderDetails"
  /\ settled' = settled + 1
  /\ IF OrderItemFkOk(buf[nxt].orderId, db)
     THEN /\ db' = [db EXCEPT !["orderDetails"] =
                      BulkCreate(@, CartItems(buf[nxt].orderId, buf[nxt].products))]
          /\ nxt' = nxt + 1 /\ sst' = "inserting"
          /\ UNCHANGED serr
     ELSE /\ sst' = "rejected" /\ serr' = Err("ForeignKey", "orderDetails", nxt)
          /\ db' = DbAfterFailedInsert(db, "orderDetails")
          /\ nxt' = nxt
  /\ UNCHANGED <<pc, cur, buf, started, completed, result, syncCount, synced, issued,
                 successLogged, run, doneCounts, Files, SeederVars>>

\* The loop is over: the seeder's promise resolves.
SeederResolve ==
  /\ pc = "seeding" /\ sst = "inserting"
  /\ nxt > Len(buf)
  /\ sst' = "resolved"
  /\ completed' = Append(completed, CurEntity)
  /\ UNCHANGED <<pc, cur, serr, buf, nxt, db, started, result, syncCount, synced, issued, settled,
                 successLogged, run, doneCounts, Files, SeederVars>>

\* runSeeders resumes after a resolved await and calls the next seeder.
AwaitNext ==
  /\ pc = "seeding" /\ sst = "resolved" /\ cur < NumSeeders
  /\ cur' = cur + 1 /\ sst' = "call"
  /\ UNCHANGED <<pc, serr, buf, nxt, db, started, completed, result, syncCount, synced,
                 issued, settled, successLogged, run, doneCounts, Files, SeederVars>>

\* The last await resolved: the success message, then the promise resolves.
Finish ==
  /\ pc = "seeding" /\ sst = "resolved" /\ cur = NumSeeders
  /\ successLogged' = TRUE
  /\ pc' = "done" /\ result' = Resolved
  /\ doneCounts' = Append(doneCounts, [run |-> run, counts |-> Counts(db)])
  /\ UNCHANGED <<cur, sst, serr, buf, nxt, db, started, completed, syncCount, synced,
                 issued, settled, Files, SeederVars>>
  /\ UNCHANGED <<run, SeederVars>>

\* A catch block that throws an error of its own.
ThrowNewError(e) == Err("SeederError", "none", 0)

\* throw error, in the catch block of runSeeders.
Rethrow(e) == e

\* A catch block that undoes what the run has inserted.
RollbackCommitted(d) == EmptyDb

\* The catch block of runSeeders logs and throws: the tables stay as they are.
DbAfterCatch(d) == d

\* An awaited promise rejected: catch (error) { console.error(...); throw error; }
CatchRethrow ==
  /\ \/ pc = "syncRejected"
     \/ pc = "seeding" /\ sst = "rejected"
  /\ pc' = "failed"
  /\ result' = Rejected(Rethrow(serr))
  /\ db' = DbAfterCatch(db)
  /\ UNCHANGED <<cur, sst, serr, buf, nxt, started, completed, syncCount, synced,
                 issued, settled, successLogged, run, doneCounts, Files, SeederVars>>

Next ==
  \/ CallRunSeeders
  \/ SyncForce
  \/ CallStreamSeeder
  \/ StreamData
  \/ StreamOutcome
  \/ CallSeedOrders
  \/ CallReadFileSeeder
  \/ IssueInsert
  \/ InsertRecord
  \/ CreateShoppingCart
  \/ SeederResolve
  \/ AwaitNext
  \/ Finish
  \/ CatchRethrow

Spec == Init /\ [][Next]_vars

\* A step of a run that has been called: every one but the call itself.
RunStep ==
  \/ SyncForce
  \/ CallStreamSeeder
  \/ StreamData
  \/ StreamOutcome
  \/ CallSeedOrders
  \/ CallReadFileSeeder
  \/ IssueInsert
  \/ InsertRecord
  \/ CreateShoppingCart
  \/ SeederResolve
  \/ AwaitNext
  \/ Finish
  \/ CatchRethrow

\* The event loop runs a continuation that is ready, and the calls to the
\* database and the stream events a seeder waits for do arrive.
SpecFair == Spec /\ WF_vars(RunStep)

TypeOK ==
  /\ pc \in {"idle", "sync", "syncRejected", "seeding", "done", "failed", "crashed"}
  /\ cur \in 0..NumSeeders
  /\ sst \in {"none", "call", "reading", "inserting", "awaiting", "resolved", "rejected"}
  /\ settled <= issued
  /\ run \in 0..MaxRuns

\* ------------------------------------------- the entry point run standalone
\* An entry point that reports success whatever the outcome.
ExitCodeAlwaysZero(outcome) == 0

\* runSeeders().then(() => process.exit(0)).catch((error) => { ...; process.exit(1) })
ExitCode(outcome) == IF outcome = "resolved" THEN 0 ELSE 1

AllButExitCode ==
  <<pc, cur, sst, serr, buf, nxt, db, started, completed, result, syncCount, synced,
    issued, settled, successLogged, run, doneCounts, nrecs, details, SeederVars,
    op, ret>>

\* The promise of runSeeders has settled: the then or the catch handler exits.
ExitOnSettled ==
  /\ exitCode = -1 /\ result.state \in {"resolved", "rejected"}
  /\ exitCode' = ExitCode(result.state)
  /\ UNCHANGED AllButExitCode

\* An uncaught exception ends the process: Node exits with code 1.
ExitOnUncaught ==
  /\ exitCode = -1 /\ pc = "crashed"
  /\ exitCode' = 1
  /\ UNCHANGED AllButExitCode

\* if (require.main === module): runSeeders is called once, in a process of its own.
NextStandalone ==
  \/ exitCode = -1 /\ Next /\ run' = 1
  \/ ExitOnSettled
  \/ ExitOnUncaught

SpecStandalone == Init /\ [][NextStandalone]_vars

\* ------------------------------------------------- CSV text and JS values
\* A text is a sequence of atoms: the separators "," and "\n", blanks, digits,
\* and words that hold no separator.
JsStr(a) == [t |-> "str", v |-> a]

JsInt(n) == [t |-> "int", v |-> n]

JsBool(b) == [t |-> "bool", v |-> b]

JsNaN == [t |-> "nan"]

JsNull == [t |-> "null"]

Undefined == [t |-> "undefined"]

Whitespace == {" ", "\n"}

DigitVal ==
  [c \in {"0", "1", "2", "3", "4", "5", "6", "7", "8", "9"} |->
     CASE c = "0" -> 0 [] c = "1" -> 1 [] c = "2" -> 2 [] c = "3" -> 3 [] c = "4" -> 4
       [] c = "5" -> 5 [] c = "6" -> 6 [] c = "7" -> 7 [] c = "8" -> 8 [] c = "9" -> 9]

\* String.prototype.trim
RECURSIVE Trim(_)
Trim(text) ==
  IF text = << >> THEN text
  ELSE IF Head(text) \in Whitespace THEN Trim(Tail(text))
  ELSE IF text[Len(text)] \in Whitespace THEN Trim(SubSeq(text, 1, Len(text) - 1))
  ELSE text

\* String.prototype.split(sep): the pieces between the separators, at least one.
RECURSIVE Split(_, _)
Split(text, sep) ==
  IF \E i \in 1..Len(text) : text[i] = sep
  THEN LET i == CHOOSE k \in 1..Len(text) :
                  text[k] = sep /\ \A m \in 1..(k - 1) : text[m] # sep
       IN  << SubSeq(text, 1, i - 1) >> \o Split(SubSeq(text, i + 1, Len(text)), sep)
  ELSE << text >>

RECURSIVE DigitPrefix(_)
DigitPrefix(a) ==
  IF a # << >> /\ Head(a) \in DOMAIN DigitVal
  THEN << Head(a) >> \o DigitPrefix(Tail(a))
  ELSE << >>

RECURSIVE NumVal(_)
NumVal(ds) ==
  IF ds = << >> THEN 0
  ELSE NumVal(SubSeq(ds, 1, Len(ds) - 1)) * 10 + DigitVal[ds[Len(ds)]]

\* parseInt: leading blanks skipped, an optional sign, then the longest run of
\* digits; NaN when there is none (also for undefined).
ParseInt(value) ==
  IF value.t # "str" THEN JsNaN
  ELSE LET a == Trim(value.v)
           signed == a # << >> /\ Head(a) \in {"-", "+"}
           ds == DigitPrefix(IF signed THEN Tail(a) ELSE a)
       IN  IF ds = << >> THEN JsNaN
           ELSE IF signed /\ Head(a) = "-" THEN JsInt(0 - NumVal(ds))
           ELSE JsInt(NumVal(ds))

\* An indexing that yields the empty text past the end.
MissingAsEmptyText(values, index) ==
  IF index <= Len(values) THEN JsStr(values[index]) ELSE JsStr(<< >>)

\* values[index] of a JS array, 1-based here: undefined past the end.
ValueAt(values, index) ==
  IF index <= Len(values) THEN JsStr(values[index]) ELSE Undefined

\* The text of a header cell as an object key.
KeyOf(field) == IF field = << >> THEN "" ELSE field[1]

\* row.key of a JS object: undefined when the key is absent.
Get(rec, k) == IF k \in DOMAIN rec THEN rec[k] ELSE Undefined

\* rec[k] = v
Assign(rec, k, v) == [x \in (DOMAIN rec) \cup {k} |-> IF x = k THEN v ELSE rec[x]]

EmptyRecord == [x \in {} |-> Undefined]

\* A parse that maps every line, the first one too.
ParseLinesKeepingHeader(text) ==
  LET lines == Split(Trim(text), "\n")
  IN  [headers |-> Split(lines[1], ","), data |-> lines]

\* csvData.trim().split("\n"), lines[0].split(","), lines.slice(1)
ParseLines(text) ==
  LET lines == Split(Trim(text), "\n")
  IN  [headers |-> Split(lines[1], ","), data |-> Tail(lines)]

\* Array.prototype.join
RECURSIVE Join(_, _)
Join(pieces, sep) ==
  IF pieces = << >> THEN << >>
  ELSE IF Len(pieces) = 1 THEN pieces[1]
  ELSE pieces[1] \o << sep >> \o Join(Tail(pieces), sep)

\* ---------------------------------------------------------- seedAddresses
\* A transform that leaves the header's name as it is.
KeepHeaderName(header) == header

\* let fieldName = header; if (header === "departament_id") fieldName = "department_id"
FieldName(header) == IF header = "departament_id" THEN "department_id" ELSE header

\* The forEach body of seedAddresses (with the rename).
AddressEntry(header, value) ==
  IF header \in {"city_id", "departament_id", "department_id", "country_id", "user_id"}
  THEN [key |-> FieldName(header), val |-> ParseInt(value)]
  ELSE [key |-> FieldName(header), val |-> value]

\* A variant that renames the misspelled column.
RenamedHeader(header) == IF header = "departament_id" THEN "department_id" ELSE header

\* address[header] = ... of the seedAddresses variant without the rename.
PlainFieldName(header) == header

\* The forEach body of the seedAddresses variant without the rename.
PlainAddressEntry(header, value) ==
  IF header \in {"city_id", "department_id", "country_id", "info_user_id"}
  THEN [key |-> PlainFieldName(header), val |-> ParseInt(value)]
  ELSE [key |-> PlainFieldName(header), val |-> value]

\* record[header] = values[index] of seedFromCSV.
CsvEntry(header, value) == [key |-> header, val |-> value]

\* The Address transform of runFinalSeeder: the spread row, then the five overrides.
FinalAddressTransform(row) ==
  LET r1 == Assign(row, "user_id", ParseInt(Get(row, "user_id")))
      r2 == Assign(r1, "city_id", ParseInt(Get(row, "city_id")))
      r3 == Assign(r2, "departament_id", ParseInt(Get(row, "departament_id")))
      r4 == Assign(r3, "country_id", ParseInt(Get(row, "country_id")))
  IN  Assign(r4, "is_active", JsBool(Get(row, "is_active") = JsStr(<< "true" >>)))

Entry(which, header, value) ==
  CASE which = "seedAddresses" -> AddressEntry(header, value)
    [] which = "seedAddressesPlain" -> PlainAddressEntry(header, value)
    [] OTHER -> CsvEntry(header, value)

\* headers.forEach((header, index) => ...) over one line's values.
RECURSIVE ForEachHeader(_, _, _, _, _)
ForEachHeader(which, headers, values, index, rec) ==
  IF index > Len(headers) THEN rec
  ELSE LET e == Entry(which, KeyOf(headers[index]), ValueAt(values, index))
       IN  ForEachHeader(which, headers, values, index + 1, Assign(rec, e.key, e.val))

\* lines.slice(1).map(line => ...): one record per data line.
AddressRecords(which, text) ==
  LET parsed == ParseLines(text)
  IN  [i \in 1..Len(parsed.data) |->
         LET rec == ForEachHeader(which, parsed.headers, Split(parsed.data[i], ","),
                                  1, EmptyRecord)
         IN  IF which = "runFinalSeeder" THEN FinalAddressTransform(rec) ELSE rec]

\* ------------------------------------------------------ the Address model
AddressColumns ==
  {"user_id", "city_id", "department_id", "country_id", "street", "number",
   "postal_code", "is_active"}

\* The attributes declared allowNull: false.
AddressNotNull ==
  {"user_id", "city_id", "department_id", "country_id", "street", "number", "postal_code"}

AddressIntegers == {"user_id", "city_id", "department_id", "country_id"}

AllDigits(a) == a # << >> /\ \A i \in 1..Len(a) : a[i] \in DOMAIN DigitVal

\* What an INTEGER column takes: a number, or a text of digits.
ValidInteger(value) == value.t = "int" \/ (value.t = "str" /\ AllDigits(value.v))

NotNullViolations(rec) == { f \in AddressNotNull : Get(rec, f) \in {Undefined, JsNull} }

InvalidIntegers(rec) ==
  { f \in AddressIntegers : Get(rec, f) \notin {Undefined, JsNull} /\ ~ValidInteger(rec[f]) }

AddressAccepted(rec) == NotNullViolations(rec) = {} /\ InvalidIntegers(rec) = {}

AddressError(rec, i) ==
  [kind |-> "Constraint", notNull |-> NotNullViolations(rec),
   invalid |-> InvalidIntegers(rec), at |-> i]

\* The row kept of a record: the model's attributes, other keys are ignored;
\* is_active takes its defaultValue (true) when the record gives undefined.
AddressRow(rec) ==
  [f \in ((DOMAIN rec) \cap AddressColumns) \cup {"is_active"} |->
     IF f = "is_active" /\ Get(rec, f) = Undefined THEN JsBool(TRUE) ELSE rec[f]]

\* ----------------------------------------------- addresses.csv, as inputs
\* Texts of the department cell.
DepartmentCells == { << "1" >>, << "1", "2" >>, << "7", "a" >>, << >> }

\* How many of its cells the last data line has: all of them, all but
\* is_active, or the first four (no street, number, postal_code, is_active).
CellsKept == {4, 7, 8}

AddressInputs ==
  [dep : {"departament_id", "department_id"},
   cells : UNION { [1..n -> DepartmentCells] : n \in 0..MaxRecs },
   keep : CellsKept]

AddressHeader(dep) ==
  << << "user_id" >>, << "city_id" >>, << dep >>, << "country_id" >>, << "street" >>,
     << "number" >>, << "postal_code" >>, << "is_active" >> >>

AddressLine(cell) ==
  << << "1" >>, << "2" >>, cell, << "1" >>, << "Carrera", " ", "7" >>,
     << "1", "2", "3", "-", "4", "5" >>, << "1", "1", "0", "1", "1", "1" >>, << "true" >> >>

\* The file: the header line, one line per row, a final newline.
AddressText(in) ==
  Join(<< Join(AddressHeader(in.dep), ",") >> \o
       [i \in 1..Len(in.cells) |->
          Join(SubSeq(AddressLine(in.cells[i]), 1, IF i = Len(in.cells) THEN in.keep ELSE 8),
               ",")], "\n") \o << "\n" >>

\* runSeeders is not running.
RunnerIdle ==
  /\ pc = "idle" /\ cur = 0 /\ sst = "none" /\ serr = NoErr
  /\ buf = << >> /\ nxt = 1 /\ db = EmptyDb
  /\ started = << >> /\ completed = << >> /\ result = Pending
  /\ syncCount = 0 /\ synced = FALSE /\ issued = 0 /\ settled = 0 /\ successLogged = FALSE
  /\ run = 0 /\ doneCounts = << >> /\ exitCode = -1
  /\ details = << >> /\ nrecs = [e \in FileEntities |-> 0]
  /\ NoCall

InitAddresses ==
  /\ RunnerIdle
  /\ seeder \in {"seedAddresses", "seedAddressesPlain", "runFinalSeeder"}
  /\ input \in AddressInputs
  /\ ph = "start" /\ recs = << >> /\ pos = 1
  /\ handed = << >> /\ stored = << >> /\ thrown = NoErr

\* readFileSync, the split and the map: the records are built before any insert.
ParseAddresses ==
  /\ ph = "start"
  /\ recs' = AddressRecords(seeder, AddressText(input))
  /\ ph' = "inserting" /\ pos' = 1
  /\ UNCHANGED <<RunnerVars, seeder, input, handed, stored, thrown>>

\* await addressDao.createAddress(addressData): Address.create validates, then inserts.
CreateAddress ==
  /\ seeder \in {"seedAddresses", "seedAddressesPlain"}
  /\ ph = "inserting" /\ pos <= Len(recs)
  /\ handed' = Append(handed, recs[pos])
  /\ IF AddressAccepted(recs[pos])
     THEN /\ stored' = Append(stored, AddressRow(recs[pos]))
          /\ pos' = pos + 1
          /\ UNCHANGED <<ph, thrown>>
     ELSE /\ ph' = "rejected" /\ thrown' = AddressError(recs[pos], pos)
          /\ UNCHANGED <<stored, pos>>
  /\ UNCHANGED <<RunnerVars, seeder, input, recs>>

\* The loop of seedAddresses is over.
AddressesSeeded ==
  /\ seeder \in {"seedAddresses", "seedAddressesPlain"}
  /\ ph = "inserting" /\ pos > Len(recs)
  /\ ph' = "resolved"
  /\ UNCHANGED <<RunnerVars, seeder, input, recs, pos, handed, stored, thrown>>

\* An insert row by row: the rows before the refused one are kept.
KeepRowsBeforeRefused(table, records, bad) ==
  table \o [i \in 1..(bad - 1) |-> AddressRow(records[i])]

\* bulkCreate is one INSERT statement: when a row is refused none is inserted.
StoredAfterFailedBulk(table, records, bad) == table

\* await model.bulkCreate(records) of seedFromCSV: one insert of all the records.
BulkCreateAddresses ==
  /\ seeder = "runFinalSeeder"
  /\ ph = "inserting"
  /\ handed' = recs
  /\ IF \A i \in 1..Len(recs) : AddressAccepted(recs[i])
     THEN /\ stored' = [i \in 1..Len(recs) |-> AddressRow(recs[i])]
          /\ ph' = "resolved" /\ pos' = Len(recs) + 1
          /\ thrown' = thrown
     ELSE LET bad == CHOOSE i \in 1..Len(recs) :
                       /\ ~AddressAccepted(recs[i])
                       /\ \A k \in 1..(i - 1) : AddressAccepted(recs[k])
          IN  /\ ph' = "rejected" /\ thrown' = AddressError(recs[bad], bad)
              /\ stored' = StoredAfterFailedBulk(stored, recs, bad)
              /\ UNCHANGED pos
  /\ UNCHANGED <<RunnerVars, seeder, input, recs>>

NextAddresses ==
  \/ ParseAddresses
  \/ CreateAddress
  \/ AddressesSeeded
  \/ BulkCreateAddresses

SpecAddresses == InitAddresses /\ [][NextAddresses]_vars

\* ---------------------------------------------------------------- seedRoles
\* csv(): the first line gives the keys; every further line gives one object
\* holding the cells it has, keyed by the header of the same position.
RECURSIVE CellsToRow(_, _, _, _)
CellsToRow(headers, cells, index, rec) ==
  IF index > Len(cells) \/ index > Len(headers) THEN rec
  ELSE CellsToRow(headers, cells, index + 1,
                  Assign(rec, KeyOf(headers[index]), JsStr(cells[index])))

CsvParserRows(text) ==
  LET body == IF text # << >> /\ text[Len(text)] = "\n"
              THEN SubSeq(text, 1, Len(text) - 1) ELSE text
      lines == Split(body, "\n")
      headers == Split(lines[1], ",")
  IN  [i \in 1..(Len(lines) - 1) |->
         CellsToRow(headers, Split(lines[i + 1], ","), 1, EmptyRecord)]

\* A coercion that keeps a missing value missing.
IsActiveOrNull(value) ==
  IF value \in {Undefined, JsStr(<< >>)} THEN JsNull ELSE JsBool(value = JsStr(<< "true" >>))

\* row.is_active === 'true'
IsActiveFromCsv(value) == JsBool(value = JsStr(<< "true" >>))

\* The 'data' handler of seedRoles.
RoleOnData(row) == Assign(row, "is_active", IsActiveFromCsv(Get(row, "is_active")))

\* a ?? b
Coalesce(a, b) == IF a \in {Undefined, JsNull} THEN b ELSE a

\* The object createRole passes to Role.create.
RoleToCreate(data) ==
  [name |-> Get(data, "name"), is_active |-> Coalesce(Get(data, "is_active"), JsBool(TRUE))]

\* Role.create: the name is required and unique.
RoleAccepted(role, table) ==
  /\ role.name \notin {Undefined, JsNull}
  /\ \A i \in 1..Len(table) : table[i].name # role.name

\* roles.csv as inputs: each row is the list of its cells.
RoleLines ==
  { << << "Admin" >>, << "true" >> >>,
    << << "User" >>, << "false" >> >>,
    << << "Guest" >>, << >> >>,
    << << "Visitor" >> >>,
    << << "Root" >>, << "TRUE" >> >> }

RoleInputs == UNION { [1..n -> RoleLines] : n \in 0..MaxRoleRows }

RoleText(in) ==
  Join(<< << "name", ",", "is_active" >> >> \o [i \in 1..Len(in) |-> Join(in[i], ",")], "\n")
    \o << "\n" >>

InitRoles ==
  /\ RunnerIdle
  /\ seeder = "seedRoles"
  /\ input \in RoleInputs
  /\ ph = "start" /\ recs = << >> /\ pos = 1
  /\ handed = << >> /\ stored = << >> /\ thrown = NoErr

\* The 'data' events, one per row, then 'end': roles holds every coerced row.
RolesStreamEnd ==
  /\ seeder = "seedRoles" /\ ph = "start"
  /\ recs' = LET parsed == CsvParserRows(RoleText(input))
             IN  [i \in 1..Len(parsed) |-> RoleOnData(parsed[i])]
  /\ ph' = "inserting" /\ pos' = 1
  /\ UNCHANGED <<RunnerVars, seeder, input, handed, stored, thrown>>

\* await roleDao.createRole(roleData)
CreateRole ==
  /\ seeder = "seedRoles" /\ ph = "inserting" /\ pos <= Len(recs)
  /\ handed' = Append(handed, recs[pos])
  /\ IF RoleAccepted(RoleToCreate(recs[pos]), stored)
     THEN /\ stored' = Append(stored, RoleToCreate(recs[pos]))
          /\ pos' = pos + 1
          /\ UNCHANGED <<ph, thrown>>
     ELSE /\ ph' = "rejected"
          /\ thrown' = [kind |-> "Constraint", notNull |-> {}, invalid |-> {}, at |-> pos]
          /\ UNCHANGED <<stored, pos>>
  /\ UNCHANGED <<RunnerVars, seeder, input, recs>>

\* The loop is over: resolve().
RolesSeeded ==
  /\ seeder = "seedRoles" /\ ph = "inserting" /\ pos > Len(recs)
  /\ ph' = "resolved"
  /\ UNCHANGED <<RunnerVars, seeder, input, recs, pos, handed, stored, thrown>>

NextRoles ==
  \/ RolesStreamEnd
  \/ CreateRole
  \/ RolesSeeded

SpecRoles == InitRoles /\ [][NextRoles]_vars

\* -------------------------------------------------------- runCompleteSeeder
\* The seedFromCSV calls of runCompleteSeeder, in order.
CompleteOrder ==
  << "countries", "departments", "cities", "banks", "paymentMethods", "orderStatus",
     "references" >>

CompleteEntities == { CompleteOrder[i] : i \in 1..Len(CompleteOrder) }

\* The classes declared inline, never registered with the sequelize instance.
InlineModels == {"paymentMethods", "orderStatus", "references"}

CompleteEmptyDb == [e \in CompleteEntities |-> << >>]

CompleteCounts(d) == [e \in CompleteEntities |-> Len(d[e])]

\* A synchronisation that drops and recreates the tables.
CompleteSyncForce(d) == CompleteEmptyDb

\* sequelize.sync({ alter: true }): the tables are altered in place, rows stay.
CompleteSyncDb(d) == d

\* The records seedFromCSV builds from e's file: with the primary key of the
\* file when its header has that column.
CompleteRecords(e) ==
  [i \in 1..nrecs[e] |-> IF e \in input.keys THEN [rec |-> i, id |-> i] ELSE [rec |-> i]]

MaxId(table) == IF table = << >> THEN 0 ELSE CHOOSE m \in Ids(table) : \A x \in Ids(table) : x <= m

\* The rows a bulkCreate adds: given keys are kept, missing ones come from the serial.
RECURSIVE Keyed(_, _)
Keyed(records, first) ==
  IF records = << >> THEN << >>
  ELSE LET r == Head(records)
       IN  IF "id" \in DOMAIN r
           THEN << r >> \o Keyed(Tail(records), first)
           ELSE << [rec |-> r.rec, id |-> first] >> \o Keyed(Tail(records), first + 1)

\* A primary key is unique.
KeysFree(table, records) ==
  \A i \in 1..Len(records) : "id" \in DOMAIN records[i] => records[i].id \notin Ids(table)

InitComplete ==
  /\ pc = "idle" /\ cur = 0 /\ sst = "none" /\ serr = NoErr
  /\ buf = << >> /\ nxt = 1 /\ db = CompleteEmptyDb
  /\ started = << >> /\ completed = << >> /\ result = Pending
  /\ syncCount = 0 /\ synced = FALSE /\ issued = 0 /\ settled = 0 /\ successLogged = FALSE
  /\ run = 0 /\ doneCounts = << >> /\ exitCode = -1 /\ details = << >>
  /\ \E S \in SUBSET CompleteEntities, n \in 1..MaxRecs :
       nrecs = [e \in CompleteEntities |-> IF e \in S THEN n ELSE 0]
  /\ seeder = "runCompleteSeeder"
  /\ \E k \in {{}} \cup { {e} : e \in CompleteEntities }, p \in BOOLEAN, w \in BOOLEAN :
       input = [keys |-> k, present |-> p, inlineModelsWork |-> w]
  /\ ph = "none" /\ recs = << >> /\ pos = 1
  /\ handed = << >> /\ stored = << >> /\ thrown = NoErr
  /\ NoCall

CompleteFrame ==
  <<sst, buf, nxt, started, completed, synced, issued, settled, exitCode, nrecs,
    details, SeederVars, op, ret>>

\* runCompleteSeeder is called.
CallRunCompleteSeeder ==
  /\ pc \in {"idle", "done", "failed"}
  /\ run < MaxRuns
  /\ pc' = "sync" /\ run' = run + 1 /\ cur' = 0
  /\ serr' = NoErr /\ result' = Pending /\ syncCount' = 0 /\ successLogged' = FALSE
  /\ UNCHANGED <<db, doneCounts, CompleteFrame>>

\* await sequelize.sync({ alter: true })
SyncAlter ==
  /\ pc = "sync"
  /\ db' = CompleteSyncDb(db)
  /\ syncCount' = syncCount + 1
  /\ pc' = "seeding" /\ cur' = 1
  /\ UNCHANGED <<serr, result, successLogged, run, doneCounts, CompleteFrame>>

\* await seedFromCSV(model, filename, transform): readFileSync, the parse, then
\* one bulkCreate of all the records.
SeedFromCsv ==
  /\ pc = "seeding" /\ cur <= Len(CompleteOrder)
  /\ LET e == CompleteOrder[cur]
         records == CompleteRecords(e)
     IN  IF ~input.present
         THEN /\ pc' = "rejected" /\ serr' = Err("ENOENT", e, 0)
              /\ UNCHANGED <<db, cur>>
         ELSE IF records # << >> /\ e \in InlineModels /\ ~input.inlineModelsWork
         THEN /\ pc' = "rejected" /\ serr' = Err("ModelNotInitialized", e, 0)
              /\ UNCHANGED <<db, cur>>
         ELSE IF ~KeysFree(db[e], records)
         THEN /\ pc' = "rejected" /\ serr' = Err("UniqueViolation", e, 0)
              /\ UNCHANGED <<db, cur>>
         ELSE /\ db' = [db EXCEPT ![e] = @ \o Keyed(records, MaxId(@) + 1)]
              /\ cur' = cur + 1
              /\ UNCHANGED <<pc, serr>>
  /\ UNCHANGED <<result, syncCount, successLogged, run, doneCounts, CompleteFrame>>

\* "All tables seeded successfully!", and the promise resolves.
CompleteFinish ==
  /\ pc = "seeding" /\ cur > Len(CompleteOrder)
  /\ successLogged' = TRUE
  /\ pc' = "done" /\ result' = Resolved
  /\ doneCounts' = Append(doneCounts, [run |-> run, counts |-> CompleteCounts(db)])
  /\ UNCHANGED <<cur, serr, db, syncCount, run, CompleteFrame>>

\* catch (error) { console.error(...); throw error; }
CompleteCatch ==
  /\ pc = "rejected"
  /\ pc' = "failed" /\ result' = Rejected(serr)
  /\ UNCHANGED <<cur, serr, db, syncCount, successLogged, run, doneCounts, CompleteFrame>>

NextComplete ==
  \/ CallRunCompleteSeeder
  \/ SyncAlter
  \/ SeedFromCsv
  \/ CompleteFinish
  \/ CompleteCatch

SpecComplete == InitComplete /\ [][NextComplete]_vars

\* ------------------------------------------------------- the batch seeders
\* The seeders that insert through a batch call, each with its own sources:
\* seedOrderDetails at the end of runSeeders (the other files complete),
\* runCompleteSeeder, and the Address step of runFinalSeeder.
InitBatch ==
  \/ /\ Init /\ db = EmptyDb
     /\ \A e \in FileEntities \ {"orderDetails"} : nrecs[e] = MaxRecs
  \/ InitComplete
  \/ InitAddresses /\ seeder = "runFinalSeeder"

NextBatch ==
  \/ seeder = "none" /\ Next
  \/ seeder = "runCompleteSeeder" /\ NextComplete
  \/ seeder = "runFinalSeeder" /\ (ParseAddresses \/ BulkCreateAddresses)

SpecBatch == InitBatch /\ [][NextBatch]_vars

\* --------------------------------------------- the seeders on their sources
\* seedAddresses (both variants), the Address step of runFinalSeeder and
\* seedRoles, each run on its own over its source file.
InitRows == InitAddresses \/ InitRoles

NextRows ==
  \/ seeder # "seedRoles" /\ NextAddresses
  \/ NextRoles

SpecRows == InitRows /\ [][NextRows]_vars

\* ------------------------------------------------------------------ claims
SetOf(seq) == { seq[i] : i \in 1..Len(seq) }

\* C1: a seeder whose table holds a foreign key to another seeder's table is
\* called only after that other seeder's promise has resolved.
C1_ParentSeededBeforeChild ==
  \A fk \in ForeignKeys : fk[1] \in SetOf(started) => fk[2] \in SetOf(completed)

C1_Witness ==
  /\ pc = "seeding" /\ "orderDetails" \in SetOf(started)
  /\ \A fk \in ForeignKeys : fk[2] \in SetOf(completed)

\* Every data row of e's source is in e's table.
RowsPresent(e) ==
  /\ Len(db[e]) = FullCount(e)
  /\ e \in FileEntities \ {"orderDetails"} => \A i \in 1..Len(db[e]) : db[e][i].rec = i

\* Items of the order groups before group n.
RECURSIVE ItemsBefore(_, _)
ItemsBefore(groups, n) ==
  IF n <= 1 THEN 0 ELSE Len(groups[n - 1].products) + ItemsBefore(groups, n - 1)

\* Rows the failing seeder had inserted when its insert number nxt failed.
InsertedBeforeFailure ==
  IF CurEntity = "orderDetails" THEN ItemsBefore(buf, nxt) ELSE nxt - 1

\* C2 as stated: when runSeeders fails while seeding entity k, entities 1..k-1
\* are fully present and entities k..n, the failing one included, have no row.
C2_FailingEntityAbsent ==
  (pc = "failed" /\ synced) =>
    \A j \in 1..NumSeeders :
      IF j < cur THEN RowsPresent(SeederOrder[j]) ELSE db[SeederOrder[j]] = << >>

\* C2 amended: when runSeeders fails while seeding entity k, entities 1..k-1 are
\* fully present, entities k+1..n have no row, and entity k holds exactly the
\* rows inserted before its failing insert.
C2_FailingEntityKeepsPrefix ==
  (pc = "failed" /\ synced) =>
    /\ \A j \in 1..NumSeeders :
         /\ j < cur => RowsPresent(SeederOrder[j])
         /\ j > cur => db[SeederOrder[j]] = << >>
    /\ Len(db[CurEntity]) = InsertedBeforeFailure
    /\ serr.kind \in {"InsertError", "ForeignKey"} => serr.at = nxt /\ nxt <= Len(buf)

C2_Witness ==
  /\ pc = "failed" /\ synced /\ cur > 1 /\ cur < NumSeeders
  /\ serr.kind = "InsertError" /\ Len(db[CurEntity]) >= 1

\* C3: once a seeder has rejected, no seeder after it has been called, and the
\* promise of runSeeders is rejected with the very error of that seeder.
C3_FirstErrorPropagates ==
  /\ sst = "rejected" =>
       /\ pc \in {"seeding", "failed"}
       /\ Len(started) = cur /\ started[cur] = CurEntity
       /\ pc = "seeding" => result = Pending
       /\ pc = "failed" => result = Rejected(serr)
  /\ result.state = "rejected" => pc = "failed" /\ result.err = serr
  /\ pc = "crashed" => Len(started) = cur

C3_Witness ==
  /\ pc = "failed" /\ sst = "rejected" /\ cur > 1 /\ cur < NumSeeders
  /\ result = Rejected(Err("InsertError", CurEntity, nxt))

\* order-details.csv has a row whose order_id is no id of the orders table.
HasUnseededOrderId ==
  \E i \in 1..Len(details) : details[i].order_id \notin Ids(db["orders"])

\* C4: with a row of order-details.csv that refers to an order seedOrders did
\* not create, seedOrderDetails never resolves and the success message is never
\* printed; its insert fails with a foreign-key error at a group of such an
\* order, and runSeeders rejects with it.
C4_UnseededOrderIdAborts ==
  (cur = NumSeeders /\ pc \in {"seeding", "done", "failed"} /\ HasUnseededOrderId) =>
    /\ sst # "resolved" /\ pc # "done" /\ ~successLogged
    /\ (sst = "rejected" /\ serr.kind # "ENOENT") =>
         /\ serr.kind = "ForeignKey"
         /\ buf[serr.at].orderId \notin Ids(db["orders"])
         /\ \A i \in 1..Len(db["orderDetails"]) :
              db["orderDetails"][i].order_id \in Ids(db["orders"])
    /\ pc = "failed" => result = Rejected(serr)

C4_Witness ==
  /\ cur = NumSeeders /\ pc = "failed" /\ HasUnseededOrderId
  /\ result.err.kind = "ForeignKey" /\ Len(db["orderDetails"]) >= 1

\* C8: every successful run over the same source files ends with the same
\* number of rows in every table, whatever the tables held when it started.
C8_SuccessfulRunsSameCounts ==
  \A i, j \in 1..Len(doneCounts) : doneCounts[i].counts = doneCounts[j].counts

C8_Witness ==
  /\ Len(doneCounts) = 2
  /\ doneCounts[1].run = 2 /\ doneCounts[2].run = 3
  /\ \E e \in Entities : doneCounts[2].counts[e] > 0

\* C10: a run calls the schema reset exactly once; no insert is issued and no
\* seeder is called before the reset has completed, and none at all when the
\* reset failed.
C10_ResetOnceBeforeInserts ==
  /\ syncCount <= 1
  /\ pc \in {"syncRejected", "seeding", "done", "failed", "crashed"} => syncCount = 1
  /\ (issued > 0 \/ started # << >>) => synced
  /\ (pc \in {"syncRejected", "failed"} /\ ~synced) => issued = 0 /\ started = << >>

C10_Witness ==
  /\ pc = "failed" /\ ~synced /\ syncCount = 1 /\ db = StaleDb /\ issued = 0

\* The integer a department cell stands for.
ExpectedDepartment(cell) ==
  CASE cell = << "1" >> -> JsInt(1)
    [] cell = << "1", "2" >> -> JsInt(12)
    [] cell = << "7", "a" >> -> JsInt(7)
    [] cell = << >> -> JsNaN

\* C5: with the header 'departament_id', every record seedAddresses hands to
\* createAddress holds its row's department cell, parsed as an integer, under
\* 'department_id', and has no key 'departament_id'.
C5_DepartmentColumnRenamed ==
  (seeder = "seedAddresses" /\ input.dep = "departament_id") =>
    /\ ph # "start" => Len(recs) = Len(input.cells)
    /\ \A i \in 1..Len(handed) :
         /\ handed[i] = recs[i]
         /\ "department_id" \in DOMAIN handed[i]
         /\ handed[i]["department_id"] = ExpectedDepartment(input.cells[i])
         /\ "departament_id" \notin DOMAIN handed[i]

C5_Witness ==
  /\ seeder = "seedAddresses" /\ input.dep = "departament_id"
  /\ ph = "resolved" /\ Len(handed) = MaxRecs /\ Len(stored) = MaxRecs
  /\ \E i \in 1..Len(stored) : stored[i]["department_id"] = JsInt(12)

\* C6: with the header 'departament_id', the transforms without the rename
\* give records with no department_id; when the file has a data row the first
\* insert fails with a not-null violation on department_id, the seeder rejects,
\* and no address is ever inserted.
C6_NoRenameNotNullViolation ==
  (seeder \in {"seedAddressesPlain", "runFinalSeeder"} /\ input.dep = "departament_id") =>
    /\ \A i \in 1..Len(recs) : Get(recs[i], "department_id") = Undefined
    /\ stored = << >>
    /\ (Len(input.cells) >= 1 /\ ph \in {"resolved", "rejected"}) =>
         /\ ph = "rejected"
         /\ "department_id" \in thrown.notNull /\ thrown.at = 1
         /\ seeder = "seedAddressesPlain" => Len(handed) = 1

C6_Witness ==
  /\ seeder = "seedAddressesPlain" /\ input.dep = "departament_id"
  /\ ph = "rejected" /\ Len(recs) = MaxRecs /\ thrown.notNull = {"department_id"}

\* The source of the claim: name,is_active / Admin,true / User,false / Guest,
ThreeRoles ==
  << << << "Admin" >>, << "true" >> >>,
     << << "User" >>, << "false" >> >>,
     << << "Guest" >>, << >> >> >>

\* C7 as stated: seeding that source stores true for the first row and false
\* for the second, and for the third row the insert fails or null is stored.
C7_ThirdRowFailsOrNull ==
  (seeder = "seedRoles" /\ input = ThreeRoles /\ ph \in {"resolved", "rejected"}) =>
    /\ Len(stored) >= 2
    /\ stored[1].is_active = JsBool(TRUE)
    /\ stored[2].is_active = JsBool(FALSE)
    /\ \/ ph = "rejected" /\ thrown.at = 3
       \/ Len(stored) = 3 /\ stored[3].is_active = JsNull

\* C7 amended: seeding that source stores true for the first row and false for
\* the second; the third row is inserted too, with is_active = false. No source
\* makes seedRoles store anything but a boolean: true exactly for the cell 'true'.
C7_ThirdRowStoredFalse ==
  seeder = "seedRoles" =>
    /\ (input = ThreeRoles /\ ph \in {"resolved", "rejected"}) =>
         /\ ph = "resolved"
         /\ stored = << [name |-> JsStr(<< "Admin" >>), is_active |-> JsBool(TRUE)],
                        [name |-> JsStr(<< "User" >>), is_active |-> JsBool(FALSE)],
                        [name |-> JsStr(<< "Guest" >>), is_active |-> JsBool(FALSE)] >>
    /\ \A i \in 1..Len(stored) :
         /\ stored[i].name = JsStr(input[i][1])
         /\ stored[i].is_active =
              JsBool(Len(input[i]) >= 2 /\ input[i][2] = << "true" >>)

C7_Witness ==
  /\ seeder = "seedRoles" /\ input = ThreeRoles /\ ph = "resolved"
  /\ Len(stored) = 3 /\ stored[3].is_active = JsBool(FALSE)

\* The previous call ended successfully and left rows in the tables.
SeededByPreviousRun ==
  \E i \in 1..Len(doneCounts) :
    /\ doneCounts[i].run = run - 1
    /\ \E e \in CompleteEntities : doneCounts[i].counts[e] > 0

PreviousCounts ==
  (CHOOSE i \in 1..Len(doneCounts) : doneCounts[i].run = run - 1)

C11_OneSeederOneInsert ==
  /\ Len(started) <= Len(completed) + 1
  /\ \A i \in 1..Len(completed) : completed[i] = started[i]
  /\ pc \in {"seeding", "done", "failed", "crashed"} =>
       Len(started) = IF sst = "call" THEN cur - 1 ELSE cur
  /\ issued <= settled + 1
  /\ sst = "awaiting" =>
       /\ issued = settled + 1
       /\ Len(db[CurEntity]) = InsertedBeforeFailure
  /\ sst \in {"inserting", "resolved", "rejected"} => issued = settled
  /\ sst = "resolved" => nxt > Len(buf) /\ Len(completed) = cur

C11_Witness ==
  /\ pc = "seeding" /\ CurEntity = "banks" /\ sst = "awaiting"
  /\ nxt = MaxRecs /\ issued = settled + 1 /\ Len(db["banks"]) = MaxRecs - 1

\* The first n seeders of the sequence.
FirstSeeders(n) == SubSeq(SeederOrder, 1, n)

\* What C12 says of every state of a run.
SequenceOnceNoRollback ==
  /\ started = FirstSeeders(Len(started))
  /\ completed = FirstSeeders(Len(completed))
  /\ ~(pc = "done" /\ result.state = "rejected") /\ ~(pc = "failed" /\ result.state = "resolved")
  /\ result.state = "resolved" <=> pc = "done"
  /\ result.state = "rejected" <=> pc = "failed"
  /\ pc = "done" => completed = SeederOrder /\ \A e \in Entities : RowsPresent(e)
  /\ pc = "failed" =>
       /\ Len(completed) < NumSeeders
       /\ started = FirstSeeders(cur) /\ completed = FirstSeeders(IF cur = 0 THEN 0 ELSE cur - 1)
       /\ synced => \A j \in 1..(cur - 1) : RowsPresent(SeederOrder[j])

\* After Done or Failed the only step is a new call of runSeeders.
OnlyNewCallAfterEnd == pc \in {"done", "failed"} => (pc' = "sync" /\ run' = run + 1)

\* C12: a run calls the seeders in the fixed sequence, each at most once; it is
\* Done only with every seeder resolved and Failed only at the first seeder
\* that rejected, never both; after either the run takes no further step (the
\* next step is a new call of runSeeders); on Failed the rows of the seeders
\* that resolved are all still there.
C12_FixedSequenceNoRetryNoRollback ==
  /\ []SequenceOnceNoRollback
  /\ [][OnlyNewCallAfterEnd]_vars

C12_Witness ==
  /\ pc = "failed" /\ synced /\ cur = NumSeeders /\ sst = "rejected"
  /\ \A j \in 1..(cur - 1) : RowsPresent(SeederOrder[j]) /\ db[SeederOrder[j]] # << >>

\* C13: in a per-record seeder, when the insert of record j has failed, the
\* seeder is rejected with that error, its table holds exactly the records
\* 1..j-1, and this stays so until the run is over: no later record is inserted.
C13_PerRecordFailFast ==
  (pc \in {"seeding", "failed"} /\ cur >= 1 /\ serr.kind \in {"InsertError", "ForeignKey"}
     /\ serr.ent # "orderDetails") =>
    /\ sst = "rejected" /\ serr.ent = CurEntity
    /\ serr.at = nxt /\ nxt <= Len(buf)
    /\ Len(db[CurEntity]) = serr.at - 1
    /\ CurEntity \in FileEntities => \A i \in 1..Len(db[CurEntity]) : db[CurEntity][i].rec = i
    /\ issued = settled
    /\ pc = "failed" => result = Rejected(serr)

C13_Witness ==
  /\ pc = "failed" /\ cur = PosOf("products") /\ serr = Err("InsertError", "products", MaxRecs)
  /\ Len(db["products"]) = MaxRecs - 1 /\ Len(buf) = MaxRecs

\* seedOrderDetails has rejected on an insert.
OrderDetailsFailed ==
  /\ seeder = "none" /\ pc \in {"seeding", "failed"} /\ cur = NumSeeders
  /\ sst = "rejected" /\ serr.kind = "ForeignKey"

\* What holds of the seedFromCSV seeders: each bulkCreate adds all the records
\* of its file or none.
SeedFromCsvAllOrNone ==
  /\ seeder = "runFinalSeeder" =>
       /\ ph = "rejected" => stored = << >>
       /\ ph = "resolved" => Len(stored) = Len(recs)
  /\ seeder = "runCompleteSeeder" =>
       \A e \in CompleteEntities : \E k \in 0..run : Len(db[e]) = k * nrecs[e]

\* C14 as stated: a batch seeder inserts the rows of its entity all or none;
\* when it fails, seedOrderDetails included, its table has no row.
C14_BatchAllOrNone ==
  /\ SeedFromCsvAllOrNone
  /\ OrderDetailsFailed => db["orderDetails"] = << >>

\* C14 amended: seedFromCSV inserts the records of its file all or none.
\* seedOrderDetails inserts per order group: each group's items all or none,
\* and when it fails at a group, the items of the groups before it are there.
C14_BatchPerCall ==
  /\ SeedFromCsvAllOrNone
  /\ (seeder = "none" /\ pc \in {"seeding", "failed"} /\ cur = NumSeeders /\ sst # "call") =>
       /\ Len(db["orderDetails"]) = ItemsBefore(buf, nxt)
       /\ sst = "resolved" => Len(db["orderDetails"]) = Len(details)
  /\ OrderDetailsFailed =>
       /\ serr.at = nxt
       /\ \A g \in 1..Len(buf) :
            LET n == Cardinality({ i \in 1..Len(db["orderDetails"]) :
                                     db["orderDetails"][i].order_id = buf[g].orderId })
            IN  n = IF g < nxt THEN Len(buf[g].products) ELSE 0

C14_Witness ==
  /\ OrderDetailsFailed /\ pc = "failed" /\ nxt = 2
  /\ Len(db["orderDetails"]) = Len(buf[1].products) /\ db["orderDetails"] # << >>

\* The rows the inserts of the seeders before the current one have added.
RowsOfEarlierSeeders ==
  \A j \in 1..NumSeeders :
    IF j < cur THEN RowsPresent(SeederOrder[j]) ELSE db[SeederOrder[j]] = << >>

\* C15 as stated: when the read of an entity's file has failed, the seeder of
\* that entity is rejected with that error, runSeeders is rejected with it once
\* its catch has run, and no insert of that entity or of a later one was issued.
C15_MissingFileRejects ==
  serr.kind = "ENOENT" =>
    /\ sst = "rejected" /\ serr.ent = CurEntity
    /\ pc \in {"seeding", "failed"}
    /\ pc = "failed" => result = Rejected(serr)
    /\ RowsOfEarlierSeeders

\* The file of a stream seeder is missing: nothing rejects, the error is thrown
\* out of the event loop and the promise of runSeeders stays pending.
C15_Witness ==
  /\ pc = "crashed" /\ serr = Err("ENOENT", "roles", 0)
  /\ sst = "reading" /\ result = Pending /\ issued = 0

\* The data rows that have fewer cells than the header has columns.
ShortRows ==
  IF seeder = "seedRoles"
  THEN { i \in 1..Len(input) : Len(input[i]) < 2 }
  ELSE { i \in 1..Len(input.cells) : i = Len(input.cells) /\ input.keep < 8 }

SourceRows == IF seeder = "seedRoles" THEN Len(input) ELSE Len(input.cells)

\* The columns a short row of addresses.csv has no cell for.
MissingColumns ==
  IF input.keep = 4 THEN {"street", "number", "postal_code", "is_active"}
  ELSE IF input.keep = 7 THEN {"is_active"} ELSE {}

IsPrefix(a, b) == Len(a) <= Len(b) /\ SubSeq(b, 1, Len(a)) = a

\* A step other than the schema reset keeps every row of every table as it is.
KeepsEveryRow == pc # "sync" => \A e \in Entities : IsPrefix(db[e], db'[e])

\* C17: from the end of the schema reset until runSeeders finishes, every step
\* leaves the rows a table holds unchanged and at most adds rows after them.
C17_RowsOnlyAdded == [][KeepsEveryRow]_vars

C17_Witness ==
  /\ pc = "done" /\ run = 1 /\ issued = settled
  /\ \A e \in Entities : Len(db[e]) = FullCount(e) /\ Len(db[e]) >= 1
  /\ Len(db["orderDetails"]) = MaxRecs

\* C18: run standalone, the process exits with code 0 only when runSeeders has
\* resolved and with code 1 only when the run has failed (the promise rejected,
\* or the process died on an uncaught error); a resolved run never gives 1 and a
\* failed one never gives 0, whatever made it fail.
C18_ExitCodeMatchesOutcome ==
  /\ exitCode \in {-1, 0, 1}
  /\ exitCode = 0 => result = Resolved /\ pc = "done"
  /\ exitCode = 1 => (result.state = "rejected" /\ pc = "failed") \/ pc = "crashed"
  /\ result.state = "resolved" => exitCode \in {-1, 0}
  /\ (result.state = "rejected" \/ pc = "crashed") => exitCode \in {-1, 1}
  /\ exitCode # -1 => pc \in {"done", "failed", "crashed"}

C18_Witness ==
  /\ exitCode = 1 /\ pc = "failed" /\ result.err.kind = "InsertError"
  /\ result.err.ent = "users"

\* The promise of runSeeders has settled.
Settled == result.state \in {"resolved", "rejected"}

\* C19 as stated: every run of runSeeders eventually settles, whatever the file
\* reads and the inserts do: once called, its promise is eventually resolved or
\* rejected.
C19_EveryRunSettles == (pc = "sync") ~> Settled

\* A run that stays pending: the file of seedProducts is missing after the
\* seeders before it have inserted their rows.
C19_Witness ==
  /\ pc = "crashed" /\ cur = PosOf("products") /\ result = Pending
  /\ Len(db["users"]) = MaxRecs /\ db["products"] = << >>

\* C20: a successful run has called the seeders, and each has resolved, in
\* this order: roles, genders, categories, payment methods, banks, order
\* statuses, countries, departments, cities, accesses, users, products, orders,
\* addresses, order details.
C20_SuccessfulRunOrder ==
  pc = "done" =>
    /\ started = << "roles", "genders", "categories", "paymentMethods", "banks",
                    "orderStatus", "countries", "departments", "cities", "accesses",
                    "users", "products", "orders", "addresses", "orderDetails" >>
    /\ completed = started

C20_Witness ==
  /\ pc = "done" /\ successLogged /\ result = Resolved /\ run = MaxRuns
  /\ Len(started) = NumSeeders /\ started[1] = "roles" /\ started[NumSeeders] = "orderDetails"

\* ------------------------------------------------- the catalogue DAOs
\* bank.dao and role.dao (and the DAOs of the same shape), called on their own
\* against tables that start empty.
MaxRows == 2

Catalogues == {"banks", "roles"}

CatalogueNames == {"a", "b"}

\* Everything but the tables and the record of the last call.
DaoFrame ==
  <<pc, cur, sst, serr, buf, nxt, started, completed, result, syncCount, synced,
    issued, settled, successLogged, run, doneCounts, exitCode, nrecs, details,
    SeederVars>>

DaoIdle ==
  /\ pc = "idle" /\ cur = 0 /\ sst = "none" /\ serr = NoErr
  /\ buf = << >> /\ nxt = 1
  /\ started = << >> /\ completed = << >> /\ result = Pending
  /\ syncCount = 0 /\ synced = FALSE /\ issued = 0 /\ settled = 0 /\ successLogged = FALSE
  /\ run = 0 /\ doneCounts = << >> /\ exitCode = -1
  /\ details = << >> /\ nrecs = [e \in FileEntities |-> 0]
  /\ SeederIdle /\ NoCall

\* The call name(arg); again: it repeats the call made just before it.
Call(name, arg) ==
  [name |-> name, arg |-> arg,
   again |-> op.name = name /\ op.arg = arg]

\* A row a call returns: the plain object of toJSON() or get().
JsRow(row) == [t |-> "row", v |-> row]

\* Model.findByPk(id): the row with that key, or null.
FindByPk(table, id) ==
  IF \E i \in 1..Len(table) : table[i].id = id
  THEN JsRow(table[CHOOSE i \in 1..Len(table) : table[i].id = id])
  ELSE JsNull

\* Model.findOne({ where: { id, is_active: true } })
FindOneActive(table, id) ==
  IF \E i \in 1..Len(table) : table[i].id = id /\ table[i].is_active
  THEN JsRow(table[CHOOSE i \in 1..Len(table) : table[i].id = id /\ table[i].is_active])
  ELSE JsNull

\* is_active: data.is_active ?? true
IsActiveOrDefault(data) == IF data.is_active = Undefined THEN TRUE ELSE data.is_active.v

\* createBank, createRole: the key comes from the table's sequence; a
\* catalogue row is never removed, so the sequence stands at the row count.
CreateBank(t) ==
  /\ Len(db[t]) < MaxRows
  /\ \E n \in CatalogueNames, a \in {Undefined, JsBool(TRUE), JsBool(FALSE)} :
       LET data == [name |-> n, is_active |-> a]
           row  == [id |-> Len(db[t]) + 1, name |-> data.name,
                    is_active |-> IsActiveOrDefault(data)]
       IN /\ db' = [db EXCEPT ![t] = Append(@, row)]
          /\ op' = Call("create", <<t, data>>)
          /\ ret' = JsRow(row)
  /\ UNCHANGED DaoFrame

\* DELETE FROM t WHERE id = ...: the row is removed.
DestroyWhereId(table, id) == SelectSeq(table, LAMBDA r : r.id # id)

\* Model.update({ is_active: false }, { where: { id } }): the rows after it.
UpdateInactiveWhereId(table, id) ==
  [i \in 1..Len(table) |->
     IF table[i].id = id THEN [table[i] EXCEPT !.is_active = FALSE] ELSE table[i]]

\* The count Model.update returns: on PostgreSQL, the rows the WHERE matched.
RowsMatchedId(table, id) == Cardinality({ i \in 1..Len(table) : table[i].id = id })

\* softDeleteBank, softDeleteRole: const [rows] = await Model.update(...); return rows > 0
SoftDeleteBank(t) ==
  /\ \E id \in 1..MaxRows :
       /\ db' = [db EXCEPT ![t] = UpdateInactiveWhereId(@, id)]
       /\ op' = Call("softDelete", <<t, id>>)
       /\ ret' = JsBool(RowsMatchedId(db[t], id) > 0)
  /\ UNCHANGED DaoFrame

\* updateBank, updateRole with { is_active }: the updated row, or null.
UpdateBank(t) ==
  /\ \E id \in 1..MaxRows, a \in BOOLEAN :
       /\ db' = [db EXCEPT ![t] =
                   [i \in 1..Len(@) |->
                      IF @[i].id = id THEN [@[i] EXCEPT !.is_active = a] ELSE @[i]]]
       /\ op' = Call("update", <<t, id, a>>)
       /\ ret' = FindByPk(db'[t], id)
  /\ UNCHANGED DaoFrame

\* getBankById, getRoleById
GetBankById(t) ==
  /\ \E id \in 1..MaxRows :
       /\ op' = Call("getById", <<t, id>>)
       /\ ret' = FindByPk(db[t], id)
  /\ UNCHANGED <<db, DaoFrame>>

\* getBankByIdActive, getRoleByIdActive
GetBankByIdActive(t) ==
  /\ \E id \in 1..MaxRows :
       /\ op' = Call("getByIdActive", <<t, id>>)
       /\ ret' = FindOneActive(db[t], id)
  /\ UNCHANGED <<db, DaoFrame>>

InitCatalogue ==
  /\ DaoIdle
  /\ db = [t \in Catalogues |-> << >>]

NextCatalogue ==
  \E t \in Catalogues :
    \/ CreateBank(t)
    \/ SoftDeleteBank(t)
    \/ UpdateBank(t)
    \/ GetBankById(t)
    \/ GetBankByIdActive(t)

SpecCatalogue == InitCatalogue /\ [][NextCatalogue]_vars

\* C21: softDeleteBank(id), and the soft delete of the same shape in the
\* other catalogue DAOs, removes no row: the row with that id gets is_active
\* false, every other row stays as it was, the call returns true exactly when
\* a row with that id exists (a repeated call too), and afterwards
\* getBankById(id) still finds the row while getBankByIdActive(id) finds none.
SoftDeleteKeepsRow ==
  op'.name = "softDelete" =>
    LET t  == op'.arg[1]
        id == op'.arg[2]
    IN /\ Len(db'[t]) = Len(db[t])
       /\ \A i \in 1..Len(db[t]) :
            /\ db'[t][i].id = db[t][i].id
            /\ db'[t][i].name = db[t][i].name
            /\ db'[t][i].is_active = (db[t][i].is_active /\ db[t][i].id # id)
       /\ \A u \in Catalogues \ {t} : db'[u] = db[u]
       /\ ret' = JsBool(\E i \in 1..Len(db[t]) : db[t][i].id = id)
       /\ ret'.v => /\ FindByPk(db'[t], id) # JsNull
                    /\ FindByPk(db'[t], id).v.id = id
                    /\ FindOneActive(db'[t], id) = JsNull

C21_SoftDeleteKeepsRow == [][SoftDeleteKeepsRow]_vars

\* A repeated soft delete of an existing row has returned true, with another
\* row of the table still active.
C21_Witness ==
  /\ op.name = "softDelete" /\ op.again /\ ret = JsBool(TRUE)
  /\ Len(db[op.arg[1]]) = 2
  /\ \E i \in 1..2 : db[op.arg[1]][i].is_active

\* ------------------------------------------------- the user routes
\* routes/user.routes.ts mounts the two handlers of user.controller on
\* /api/users; the controller reaches the table through the exports of
\* dao/user.dao.
UserDaoExports == {"UserDAO", "createUser"}

UserNames == {"Ana", "Luis"}

UserEmails == {"a@x.co", "b@x.co"}

\* res.status(code).json(body); res.json(body) answers 200.
Response(code, body) == [t |-> "response", status |-> code, body |-> body]

\* catch (err) { return res.status(500).json({ error: err.message }) }
ErrorResponse(message) == Response(500, [error |-> message])

\* UserDAO.create: User.create(userData)
UserCreate(table, dto) ==
  Append(table, [id_user |-> Len(table) + 1, full_name |-> dto.full_name,
                 email |-> dto.email])

\* POST /api/users: the createUser controller.
PostUsers ==
  /\ Len(db.users) < MaxRows
  /\ \E n \in UserNames, e \in UserEmails, reachable \in BOOLEAN :
       LET dto == [full_name |-> n, email |-> e] IN
       /\ op' = Call("POST /api/users", [body |-> dto, reachable |-> reachable])
       /\ "createUser" \in UserDaoExports
       /\ IF reachable
          THEN /\ db' = [db EXCEPT !.users = UserCreate(@, dto)]
               /\ ret' = Response(201, db'.users[Len(db'.users)])
          ELSE /\ ret' = ErrorResponse("ConnectionRefusedError")
               /\ UNCHANGED db
  /\ UNCHANGED DaoFrame

\* GET /api/users: the getUsers controller calls userDao.getUsers(), a
\* property the module namespace of dao/user.dao does not have: the call
\* throws a TypeError inside the try, and the catch answers 500.
GetUsers ==
  /\ \E reachable \in BOOLEAN :
       /\ op' = Call("GET /api/users", [reachable |-> reachable])
       /\ ret' = IF "getUsers" \notin UserDaoExports
                 THEN ErrorResponse("userDao.getUsers is not a function")
                 ELSE IF reachable THEN Response(200, db.users)
                 ELSE ErrorResponse("ConnectionRefusedError")
  /\ UNCHANGED <<db, DaoFrame>>

InitUsers ==
  /\ DaoIdle
  /\ db = [users |-> << >>]

NextUsers == PostUsers \/ GetUsers

SpecUsers == InitUsers /\ [][NextUsers]_vars

\* C22: GET /api/users, handled by the getUsers controller, answers 200 with
\* the array of all the users in the database whenever the database is
\* reachable.
C22_GetUsersAnswersAll ==
  (op.name = "GET /api/users" /\ op.arg.reachable) =>
     /\ ret.status = 200
     /\ ret.body = db.users

\* GET /api/users has been answered with the database reachable and two
\* users registered.
C22_Witness ==
  /\ op.name = "GET /api/users" /\ op.arg.reachable
  /\ Len(db.users) = 2

\* ------------------------------------------------------- the server start
\* index.ts: start() authenticates, applies the associations, synchronises
\* the tables one awaited call after the other, and then listens.
\* A sequence with User ahead of the Access it references.
SyncOrderUserBeforeAccess ==
  << "Role", "Gender", "User", "Access", "Country", "Department", "City", "Address",
     "Category", "Product", "Bank", "OrderStatus", "Order", "PaymentMethod",
     "OrderPayment", "OrderItem" >>

\* The awaited Model.sync() calls of start, in their order.
SyncOrder ==
  << "Role", "Gender", "Access", "User", "Country", "Department", "City", "Address",
     "Category", "Product", "Bank", "OrderStatus", "Order", "PaymentMethod",
     "OrderPayment", "OrderItem" >>

Models == { SyncOrder[i] : i \in 1..Len(SyncOrder) }

\* applyAssociations: <<child, parent>> for every child.belongsTo(parent).
Associations ==
  { <<"Access", "Role">>, <<"User", "Access">>, <<"User", "Gender">>,
    <<"Address", "User">>, <<"Address", "City">>, <<"Address", "Department">>,
    <<"Address", "Country">>, <<"Product", "Category">>, <<"Order", "Access">>,
    <<"Order", "Bank">>, <<"Order", "OrderStatus">>, <<"OrderPayment", "Order">>,
    <<"OrderPayment", "PaymentMethod">>, <<"OrderItem", "Order">>,
    <<"OrderItem", "Product">> }

References(m) == { a[2] : a \in { b \in Associations : b[1] = m } }

\* The tables an earlier start left in the database: those it got to.
TablesOfEarlierStart(k) == [m \in { SyncOrder[i] : i \in 1..k } |-> << >>]

\* Model.sync(): CREATE TABLE IF NOT EXISTS; an existing table is kept.
SyncTable(d, m) == IF m \in DOMAIN d THEN d ELSE d @@ (m :> << >>)

\* The table can be created when the tables its foreign keys reference exist.
CanCreate(d, m) == m \in DOMAIN d \/ References(m) \subseteq DOMAIN d

\* The error is swallowed and start goes on.
ContinueAfterRejected(step) == IF step = "authenticate" THEN "applied" ELSE "sync"

\* A rejected await inside the try: control is in the catch block.
AfterRejected(step) == "catch"

StartFrame ==
  <<buf, nxt, result, syncCount, synced, issued, settled, successLogged, run,
    doneCounts, nrecs, details, SeederVars, op, ret>>

InitStart ==
  /\ DaoIdle
  /\ \E k \in 0..Len(SyncOrder) : db = TablesOfEarlierStart(k)

\* start(): sequelize.authenticate() is called and awaited.
CallStart ==
  /\ pc = "idle"
  /\ pc' = "authenticate" /\ started' = << "authenticate" >>
  /\ UNCHANGED <<cur, sst, serr, db, completed, exitCode, StartFrame>>

\* The authentication settles; applyAssociations runs right after a success.
Authenticate ==
  /\ pc = "authenticate"
  /\ \/ /\ pc' = "applied" /\ completed' = Append(completed, "authenticate")
        /\ UNCHANGED serr
     \/ /\ pc' = AfterRejected("authenticate")
        /\ serr' = Err("ConnectionError", "authenticate", 0)
        /\ UNCHANGED completed
  /\ UNCHANGED <<cur, sst, db, started, exitCode, StartFrame>>

\* await Model.sync() of the next model is issued.
IssueSync ==
  /\ pc \in {"applied", "sync"} /\ cur < Len(SyncOrder) /\ sst = "none"
  /\ cur' = cur + 1 /\ sst' = "awaiting" /\ pc' = "sync"
  /\ started' = Append(started, SyncOrder[cur'])
  /\ UNCHANGED <<serr, db, completed, exitCode, StartFrame>>

\* That call settles: the table is there, or the call rejects (the database
\* refuses the table or the connection is lost).
SettleSync ==
  /\ pc = "sync" /\ sst = "awaiting"
  /\ sst' = "none"
  /\ \/ /\ CanCreate(db, SyncOrder[cur])
        /\ db' = SyncTable(db, SyncOrder[cur])
        /\ completed' = Append(completed, SyncOrder[cur])
        /\ UNCHANGED <<pc, serr>>
     \/ /\ pc' = AfterRejected(SyncOrder[cur])
        /\ serr' = Err("DatabaseError", SyncOrder[cur], 0)
        /\ UNCHANGED <<db, completed>>
  /\ UNCHANGED <<cur, started, exitCode, StartFrame>>

\* app.listen(PORT, ...) after the last sync.
Listen ==
  /\ pc \in {"applied", "sync"} /\ cur = Len(SyncOrder) /\ sst = "none"
  /\ pc' = "listening" /\ started' = Append(started, "listen")
  /\ UNCHANGED <<cur, sst, serr, db, completed, exitCode, StartFrame>>

\* catch (error) { console.error(...); process.exit(1) }
CatchExit ==
  /\ pc = "catch"
  /\ pc' = "exited" /\ exitCode' = 1
  /\ UNCHANGED <<cur, sst, serr, db, started, completed, StartFrame>>

NextStart ==
  \/ CallStart
  \/ Authenticate
  \/ IssueSync
  \/ SettleSync
  \/ Listen
  \/ CatchExit

SpecStart == InitStart /\ [][NextStart]_vars

\* C23: at server start, the table of a model is synchronised only after the
\* tables of all the models it references by foreign key (applyAssociations)
\* have been synchronised.
C23_ReferencedTablesFirst ==
  \A i \in 1..Len(started) :
    started[i] \in Models =>
      \A parent \in References(started[i]) :
        \E j \in 1..Len(completed) : completed[j] = parent

\* The sync of OrderItem, which references Order and Product, has been issued.
C23_Witness ==
  /\ cur > 0 /\ SyncOrder[cur] = "OrderItem" /\ sst = "awaiting"
  /\ References("OrderItem") = {"Order", "Product"}

\* C30: the HTTP server starts listening only after the connection has been
\* authenticated and every table synchronisation has completed; when one of
\* those steps fails, the process exits with code 1 and the server never
\* listens.
C30_ListenOnlyAfterSync ==
  /\ "listen" \in SetOf(started) =>
       /\ SetOf(completed) = {"authenticate"} \cup Models
       /\ serr = NoErr /\ exitCode = -1
  /\ serr # NoErr => /\ pc \in {"catch", "exited"}
                     /\ "listen" \notin SetOf(started)
  /\ pc = "exited" => exitCode = 1 /\ serr # NoErr
  /\ exitCode \in {-1, 1}

\* The server listens, after a start that found no table in the database.
C30_Witness ==
  /\ pc = "listening" /\ Len(completed) = Len(SyncOrder) + 1
  /\ "listen" \in SetOf(started)

\* ------------------------------------------- seedOrderDetails on its source
\* seedOrderDetails run on its own over the text of order-details.csv, with
\* some orders already in the orders table.
\* parseFloat: the texts of the model hold digits only, where it reads the
\* number parseInt reads.
ParseFloat(value) == ParseInt(value)

\* The forEach body of seedOrderDetails.
OrderDetailEntry(header, value) ==
  IF header \in {"order_id", "product_id", "amount"}
  THEN [key |-> header, val |-> ParseInt(value)]
  ELSE IF header = "subtotal" THEN [key |-> header, val |-> ParseFloat(value)]
  ELSE IF header = "is_active"
  THEN [key |-> header, val |-> JsBool(value = JsStr(<< "true" >>))]
  ELSE [key |-> header, val |-> value]

RECURSIVE ForEachDetailHeader(_, _, _, _)
ForEachDetailHeader(headers, values, index, rec) ==
  IF index > Len(headers) THEN rec
  ELSE LET e == OrderDetailEntry(KeyOf(headers[index]), ValueAt(values, index))
       IN  ForEachDetailHeader(headers, values, index + 1, Assign(rec, e.key, e.val))

\* lines.slice(1).map(line => ...) of seedOrderDetails.
OrderDetailRecords(text) ==
  LET parsed == ParseLines(text)
  IN  [i \in 1..Len(parsed.data) |->
         ForEachDetailHeader(parsed.headers, Split(parsed.data[i], ","), 1, EmptyRecord)]

\* What the reduce reads of a parsed row: detail.order_id, detail.subtotal and
\* detail.amount. The product_id the parse put in the row is not read.
DetailRead(rec) ==
  [order_id |-> rec["order_id"].v, amount |-> rec["amount"].v,
   subtotal |-> rec["subtotal"].v]

DetailsRead(records) == [i \in 1..Len(records) |-> DetailRead(records[i])]

\* The cells of a data row that vary: its order, its product, its amount.
DetailCells ==
  [order : { << "1" >>, << "2" >> }, product : { << "1" >>, << "3" >> },
   amount : { << "2" >>, << "4" >> }]

DetailInputs ==
  [rows : UNION { [1..n -> DetailCells] : n \in 0..MaxRecs },
   orders : 1..MaxOrderId]

DetailHeader ==
  << << "order_id" >>, << "product_id" >>, << "amount" >>, << "subtotal" >>,
     << "is_active" >> >>

DetailLine(cells) ==
  << cells.order, cells.product, cells.amount, << "2", "0", "0" >>, << "true" >> >>

\* The file: the header line, one line per row, a final newline.
DetailText(in) ==
  Join(<< Join(DetailHeader, ",") >> \o
       [i \in 1..Len(in.rows) |-> Join(DetailLine(in.rows[i]), ",")], "\n") \o << "\n" >>

\* The tables before the seeder runs: orders 1..n, no order item.
OrdersSeeded(n) ==
  [e \in Entities |-> IF e = "orders" THEN [i \in 1..n |-> [id |-> i]] ELSE << >>]

OrderDetailsFrame ==
  <<pc, cur, sst, serr, buf, nxt, started, completed, result, syncCount, synced,
    issued, settled, successLogged, run, doneCounts, exitCode, nrecs, details,
    seeder, input, stored, op, ret>>

InitOrderDetails ==
  /\ pc = "idle" /\ cur = 0 /\ sst = "none" /\ serr = NoErr
  /\ buf = << >> /\ nxt = 1
  /\ started = << >> /\ completed = << >> /\ result = Pending
  /\ syncCount = 0 /\ synced = FALSE /\ issued = 0 /\ settled = 0 /\ successLogged = FALSE
  /\ run = 0 /\ doneCounts = << >> /\ exitCode = -1
  /\ details = << >> /\ nrecs = [e \in FileEntities |-> 0]
  /\ NoCall
  /\ seeder = "seedOrderDetails"
  /\ input \in DetailInputs
  /\ db = OrdersSeeded(input.orders)
  /\ ph = "start" /\ recs = << >> /\ pos = 1
  /\ handed = << >> /\ stored = << >> /\ thrown = NoErr

\* readFileSync, the split, the map and the reduce: all before any insert.
ParseOrderDetails ==
  /\ seeder = "seedOrderDetails" /\ ph = "start"
  /\ recs' = OrderDetailRecords(DetailText(input))
  /\ ph' = "inserting" /\ pos' = 1
  /\ UNCHANGED <<db, handed, thrown, OrderDetailsFrame>>

\* await orderItemDao.createShoppingCart(parseInt(orderId), products) for the
\* next group: one bulkCreate of its items.
CreateCartOfGroup ==
  /\ seeder = "seedOrderDetails" /\ ph = "inserting"
  /\ LET groups == OrderGroups(DetailsRead(recs)) IN
     /\ pos <= Len(groups)
     /\ LET items == CartItems(groups[pos].orderId, groups[pos].products) IN
        /\ handed' = handed \o items
        /\ IF OrderItemFkOk(groups[pos].orderId, db)
           THEN /\ db' = [db EXCEPT !["orderDetails"] = BulkCreate(@, items)]
                /\ pos' = pos + 1
                /\ UNCHANGED <<ph, thrown>>
           ELSE /\ ph' = "rejected" /\ thrown' = Err("ForeignKey", "orderDetails", pos)
                /\ UNCHANGED <<db, pos>>
  /\ UNCHANGED <<recs, OrderDetailsFrame>>

\* The loop over the groups is over.
OrderDetailsSeeded ==
  /\ seeder = "seedOrderDetails" /\ ph = "inserting"
  /\ pos > Len(OrderGroups(DetailsRead(recs)))
  /\ ph' = "resolved"
  /\ UNCHANGED <<db, recs, pos, handed, thrown, OrderDetailsFrame>>

NextOrderDetails ==
  \/ ParseOrderDetails
  \/ CreateCartOfGroup
  \/ OrderDetailsSeeded

SpecOrderDetails == InitOrderDetails /\ [][NextOrderDetails]_vars

\* The seeders with the hand-written parse, each on its own source:
\* seedAddresses (both variants), seedFromCSV in the Address step of
\* runFinalSeeder, and seedOrderDetails.
InitHandParsed == InitAddresses \/ InitOrderDetails

NextHandParsed ==
  \/ seeder # "seedOrderDetails" /\ NextAddresses
  \/ NextOrderDetails

SpecHandParsed == InitHandParsed /\ [][NextHandParsed]_vars

\* The data lines of the source file, each as the cells it holds.
SourceLines ==
  IF seeder = "seedOrderDetails"
  THEN [k \in 1..Len(input.rows) |-> DetailLine(input.rows[k])]
  ELSE [k \in 1..Len(input.cells) |->
          SubSeq(AddressLine(input.cells[k]), 1,
                 IF k = Len(input.cells) THEN input.keep ELSE 8)]

SourceHeader ==
  IF seeder = "seedOrderDetails" THEN DetailHeader ELSE AddressHeader(input.dep)

\* The key a record holds the header's column under.
FieldOf(header) ==
  IF seeder = "seedAddresses" /\ header = "departament_id" THEN "department_id" ELSE header

\* v is the cell's text, or what the seeder's coercion makes of it.
ReadsCell(v, cell) ==
  \/ v = JsStr(cell)
  \/ v = ParseInt(JsStr(cell))
  \/ v = JsBool(cell = << "true" >>)

\* v is what a record holds for a cell its line does not have.
ReadsNoCell(v) == v = Undefined \/ v = JsNaN \/ v = JsBool(FALSE)

\* C24: the hand-written parse (seedFromCSV, seedAddresses, seedOrderDetails)
\* takes the first line as the field names only: it yields one record per
\* line after it, in file order, the record of line k holding under the i-th
\* header the i-th value of that line; the header line is never a record and
\* never inserted.
C24_FirstLineNamesFields ==
  ph # "start" =>
    /\ Len(recs) = Len(SourceLines)
    /\ \A k \in 1..Len(recs) : \A i \in 1..Len(SourceHeader) :
         LET v == Get(recs[k], FieldOf(SourceHeader[i][1])) IN
         /\ IF i <= Len(SourceLines[k]) THEN ReadsCell(v, SourceLines[k][i])
            ELSE ReadsNoCell(v)
         /\ v # JsStr(SourceHeader[i])
    /\ Len(handed) <= Len(recs)
    /\ Len(stored) <= Len(SourceLines) /\ Len(db["orderDetails"]) <= Len(SourceLines)
    /\ \A k \in 1..Len(stored) : Get(stored[k], "street") = JsStr(SourceLines[k][5])

\* seedAddresses has inserted the rows of a file of two lines that differ;
\* the header gave no third row.
C24_Witness ==
  /\ seeder = "seedAddresses" /\ ph = "resolved"
  /\ Len(SourceLines) = 2 /\ input.cells[1] # input.cells[2]
  /\ Len(recs) = 2 /\ Len(stored) = 2

\* The one-to-one pairings of n rows with n items.
Pairings(n) == { f \in [1..n -> 1..n] : \A a, b \in 1..n : f[a] = f[b] => a = b }

\* C28: seedOrderDetails inserts exactly one order item per data row of
\* order-details.csv, and the item of a row keeps the row's order_id, the
\* row's product_id and the row's amount (as quantity).
C28_OneItemPerRow ==
  (seeder = "seedOrderDetails" /\ ph = "resolved") =>
    LET items == db["orderDetails"] IN
    /\ Len(items) = Len(input.rows)
    /\ \E f \in Pairings(Len(items)) : \A k \in 1..Len(items) :
         /\ items[f[k]].order_id = NumVal(input.rows[k].order)
         /\ items[f[k]].quantity = NumVal(input.rows[k].amount)
         /\ "product_id" \in DOMAIN items[f[k]]
         /\ items[f[k]].product_id = NumVal(input.rows[k].product)

\* seedOrderDetails has resolved over a file of two rows, of products 1 and 3.
C28_Witness ==
  /\ seeder = "seedOrderDetails" /\ ph = "resolved"
  /\ Len(input.rows) = 2 /\ Len(db["orderDetails"]) = 2
  /\ input.rows[1].product = << "1" >> /\ input.rows[2].product = << "3" >>
  /\ recs[2]["product_id"] = JsInt(3)

\* C29: a stream seeder (seedRoles, seedBanks, seedCategories, seedProducts,
\* ...) issues no insert before its whole file has been read: while it reads,
\* and after a read or parse error in the middle of the file, no row of its
\* entity is in the database.
C29_NoInsertWhileReading ==
  /\ (pc = "seeding" /\ sst = "reading") =>
       /\ CurEntity \in StreamSeeders
       /\ db[CurEntity] = << >>
       /\ issued = settled
  /\ (pc \in {"seeding", "failed", "crashed"} /\ serr.ent \in StreamSeeders
        /\ serr.kind \in {"ParseError", "ENOENT", "EIO"}) =>
       db[serr.ent] = << >>

\* The read of products.csv failed after its first row, with the earlier
\* seeders' rows inserted; and the run has ended on it.
C29_Witness ==
  /\ pc \in {"failed", "crashed"} /\ serr.kind \in {"ParseError", "EIO"}
  /\ serr.ent = "products" /\ serr.at = 1 /\ Len(buf) = 1
  /\ db["products"] = << >> /\ Len(db["roles"]) = MaxRecs

\* ------------------------------------------------------- the product DAO
\* product.dao called on its own against a products table that starts empty.
ProductPrices == {10, 20}

\* createProduct: the key comes from the table's sequence, which never hands
\* out a key again; db.serial is the last key it gave.
CreateProduct ==
  /\ db.serial < MaxRows
  /\ \E price \in ProductPrices, a \in {Undefined, JsBool(FALSE)} :
       LET data == [price |-> price, is_active |-> a]
           row  == [id |-> db.serial + 1, price |-> data.price,
                    is_active |-> IsActiveOrDefault(data)]
       IN /\ db' = [products |-> Append(db.products, row), serial |-> db.serial + 1]
          /\ op' = Call("createProduct", data)
          /\ ret' = JsRow(row)
  /\ UNCHANGED DaoFrame

\* getProductById: Product.findByPk(id); the row, or null.
GetProductById ==
  /\ \E id \in 1..MaxRows :
       /\ op' = Call("getProductById", id)
       /\ ret' = FindByPk(db.products, id)
  /\ UNCHANGED <<db, DaoFrame>>

\* A delete that marks the product inactive and keeps its row.
ProductDeactivate(table, id) ==
  [i \in 1..Len(table) |->
     IF table[i].id = id THEN [table[i] EXCEPT !.is_active = FALSE] ELSE table[i]]

\* Product.destroy({ where: { id_product } }): DELETE FROM products WHERE ...
ProductDestroy(table, id) == SelectSeq(table, LAMBDA r : r.id # id)

\* deleteProduct: const rows = await Product.destroy(...); return rows > 0
DeleteProduct ==
  /\ \E id \in 1..MaxRows :
       /\ db' = [db EXCEPT !.products = ProductDestroy(@, id)]
       /\ op' = Call("deleteProduct", id)
       /\ ret' = JsBool(RowsMatchedId(db.products, id) > 0)
  /\ UNCHANGED DaoFrame

InitProducts ==
  /\ DaoIdle
  /\ db = [products |-> << >>, serial |-> 0]

NextProducts == CreateProduct \/ GetProductById \/ DeleteProduct

SpecProducts == InitProducts /\ [][NextProducts]_vars

\* C26: deleteProduct(id) removes the product's row: it returns true exactly
\* when a product with that id existed, after it getProductById(id) finds
\* nothing and a second deleteProduct(id) returns false; every other product
\* stays as it was.
DeleteRemovesRow ==
  op'.name = "deleteProduct" =>
    LET id == op'.arg IN
    /\ ret' = JsBool(\E i \in 1..Len(db.products) : db.products[i].id = id)
    /\ \A i \in 1..Len(db'.products) : db'.products[i].id # id
    /\ FindByPk(db'.products, id) = JsNull
    /\ op'.again => ret' = JsBool(FALSE)
    /\ \A k \in (1..MaxRows) \ {id} : FindByPk(db'.products, k) = FindByPk(db.products, k)
    /\ Len(db'.products) = Len(db.products) - (IF ret'.v THEN 1 ELSE 0)

C26_DeleteRemovesRow == [][DeleteRemovesRow]_vars

\* A second deleteProduct of the same id has returned false, with the other
\* product still there.
C26_Witness ==
  /\ op.name = "deleteProduct" /\ op.again /\ ret = JsBool(FALSE)
  /\ db.serial = 2 /\ Len(db.products) = 1
  /\ db.products[1].id # op.arg

\* ---------------------------------------------------- the shopping cart DAO
\* The cart functions of the order-item DAO, called on their own. The cart of
\* a user is the order items whose order_id is the user's id.
\* products of AddShoppingCartDto: one or two items, each with price and quantity.
NewProducts ==
  LET choices == [price : {10}, quantity : {1}]
  IN  UNION { [1..n -> choices] : n \in 1..2 }

\* products of UpdateCartItemDto: Partial<ProductItemDto>, here the two of the
\* DTO's example: a quantity only, and a price with a quantity.
ProductUpdates == {[quantity |-> 2], [price |-> 20, quantity |-> 2]}

UpdateLists == UNION { [1..n -> ProductUpdates] : n \in 1..2 }

\* What a call returns: an array of rows, or the error it throws.
JsRows(rows) == [t |-> "rows", v |-> rows]

Throws(e) == [t |-> "throws", v |-> e]

\* createShoppingCart: one bulkCreate of the items; the insert is refused when
\* no order has the id.
CreateCart ==
  /\ \E userId \in 1..MaxOrderId, products \in NewProducts :
       /\ Len(db.orderItems) + Len(products) <= MaxRows
       /\ op' = Call("createShoppingCart", userId)
       /\ IF OrderItemFkOk(userId, db)
          THEN /\ db' = [db EXCEPT !.orderItems = BulkCreate(@, CartItems(userId, products))]
               /\ ret' = JsRows(SubSeq(db'.orderItems, Len(db.orderItems) + 1,
                                       Len(db'.orderItems)))
          ELSE /\ ret' = Throws("ForeignKeyConstraintError")
               /\ UNCHANGED db
  /\ UNCHANGED DaoFrame

\* A JS value used as a condition: a number that is absent or 0 is falsy.
Truthy(product, field) == field \in DOMAIN product /\ product[field] # 0

\* The values updateShoppingCart hands to OrderItem.update for one product:
\* { ...product, subtotal: product.price ? product.price * (product.quantity ||
\* existingItem.quantity) : undefined }; update leaves out what is undefined.
UpdateValues(product, existingItem) ==
  LET spread == [f \in (DOMAIN product) \cap {"price", "quantity"} |-> product[f]]
  IN  IF Truthy(product, "price")
      THEN Assign(spread, "subtotal",
                  product.price * (IF Truthy(product, "quantity") THEN product.quantity
                                   ELSE existingItem.quantity))
      ELSE spread

\* OrderItem.update(values, { where: { id_order_item } }): the row after it.
UpdateItem(item, values) ==
  [f \in DOMAIN item |-> IF f \in DOMAIN values THEN values[f] ELSE item[f]]

\* The rows OrderItem.findOne({ where: { order_id } }) may return: the query
\* gives no order, so any row of that order.
FoundForOrder(table, orderId) == { i \in 1..Len(table) : table[i].order_id = orderId }

\* The for..of loop of updateShoppingCart from product k on; found[k] is the
\* row findOne returned for product k.
RECURSIVE UpdateLoop(_, _, _, _, _)
UpdateLoop(table, productsToUpdate, found, k, updatedItems) ==
  IF k > Len(productsToUpdate) THEN [table |-> table, updatedItems |-> updatedItems]
  ELSE LET i == found[k]
           updatedItem == UpdateItem(table[i], UpdateValues(productsToUpdate[k], table[i]))
       IN  UpdateLoop([table EXCEPT ![i] = updatedItem], productsToUpdate, found, k + 1,
                      Append(updatedItems, updatedItem))

\* updateShoppingCart
UpdateCart ==
  /\ \E userId \in 1..MaxOrderId, productsToUpdate \in UpdateLists :
       /\ op' = Call("updateShoppingCart", userId)
       /\ IF FoundForOrder(db.orderItems, userId) = {}
          THEN /\ ret' = JsRows(<< >>)
               /\ UNCHANGED db
          ELSE \E found \in [1..Len(productsToUpdate) -> FoundForOrder(db.orderItems, userId)] :
                 LET after == UpdateLoop(db.orderItems, productsToUpdate, found, 1, << >>)
                 IN  /\ db' = [db EXCEPT !.orderItems = after.table]
                     /\ ret' = JsRows(after.updatedItems)
  /\ UNCHANGED DaoFrame

\* OrderItem.findAll({ where: { order_id: userId, is_active: true } })
ActiveItems(table, userId) ==
  SelectSeq(table, LAMBDA r : r.order_id = userId /\ r.is_active)

\* getShoppingCartByUserId
GetShoppingCartByUserId ==
  /\ \E userId \in 1..MaxOrderId :
       /\ op' = Call("getShoppingCartByUserId", userId)
       /\ ret' = JsRows(ActiveItems(db.orderItems, userId))
  /\ UNCHANGED <<db, DaoFrame>>

\* An update whose WHERE names the order only.
RowsOfOrder(table, userId) == Cardinality(FoundForOrder(table, userId))

\* The count of OrderItem.update(..., { where: { order_id: userId, is_active: true } })
RowsOfActiveCart(table, userId) ==
  Cardinality({ i \in 1..Len(table) : table[i].order_id = userId /\ table[i].is_active })

\* clearShoppingCart: the active items of the cart become inactive; return rowsAffected > 0
ClearShoppingCart ==
  /\ \E userId \in 1..MaxOrderId :
       /\ op' = Call("clearShoppingCart", userId)
       /\ db' = [db EXCEPT !.orderItems =
                   [i \in 1..Len(@) |->
                      IF @[i].order_id = userId /\ @[i].is_active
                      THEN [@[i] EXCEPT !.is_active = FALSE] ELSE @[i]]]
       /\ ret' = JsBool(RowsOfActiveCart(db.orderItems, userId) > 0)
  /\ UNCHANGED DaoFrame

InitCart ==
  /\ DaoIdle
  /\ \E n \in 1..MaxOrderId :
       db = [orders |-> [i \in 1..n |-> [id |-> i]], orderItems |-> << >>]

NextCart ==
  \/ CreateCart
  \/ UpdateCart
  \/ GetShoppingCartByUserId
  \/ ClearShoppingCart

SpecCart == InitCart /\ [][NextCart]_vars

\* C25: clearShoppingCart(userId) returns true exactly when the cart of that
\* user had an active item; after it getShoppingCartByUserId(userId) is empty,
\* the items of every other cart are as they were, and the same call made
\* again right away returns false.
ClearEmptiesOneCart ==
  op'.name = "clearShoppingCart" =>
    LET userId == op'.arg IN
    /\ ret' = JsBool(\E i \in 1..Len(db.orderItems) :
                       db.orderItems[i].order_id = userId /\ db.orderItems[i].is_active)
    /\ ActiveItems(db'.orderItems, userId) = << >>
    /\ Len(db'.orderItems) = Len(db.orderItems)
    /\ \A i \in 1..Len(db.orderItems) :
         db.orderItems[i].order_id # userId => db'.orderItems[i] = db.orderItems[i]
    /\ op'.again => ret' = JsBool(FALSE)

C25_ClearEmptiesOneCart == [][ClearEmptiesOneCart]_vars

\* The cart of a user was cleared twice in a row, the second call returning
\* false, while another cart keeps an active item.
C25_Witness ==
  /\ op.name = "clearShoppingCart" /\ op.again /\ ret = JsBool(FALSE)
  /\ \E i \in 1..Len(db.orderItems) : db.orderItems[i].order_id = op.arg
  /\ \E i \in 1..Len(db.orderItems) :
       db.orderItems[i].order_id # op.arg /\ db.orderItems[i].is_active

\* C27: after any sequence of createShoppingCart and updateShoppingCart
\* calls, every order item has subtotal = price x quantity.
C27_SubtotalIsPriceTimesQuantity ==
  \A i \in 1..Len(db.orderItems) :
    db.orderItems[i].subtotal = db.orderItems[i].price * db.orderItems[i].quantity

\* updateShoppingCart has returned an item it updated.
C27_Witness ==
  /\ op.name = "updateShoppingCart" /\ ret.t = "rows" /\ Len(ret.v) > 0
  /\ \E i \in 1..Len(db.orderItems) : db.orderItems[i].quantity = 2

====
